---- MODULE Spec2Model ----
(***************************************************************************)
(* Verification model of the conduwuit homeserver core: the global         *)
(* counter, the short-id interner, the /sync timeline reads, the per-room  *)
(* mutexes of federation and room mutation, and the outbound sending       *)
(* queue.  Byte strings are sequences of numbers 0..255, database trees    *)
(* are functions from byte-string keys to byte-string values.              *)
(***************************************************************************)
EXTENDS Integers, Sequences, FiniteSets, TLC

(***************************************************************************)
(* Bounds of the model.                                                    *)
(***************************************************************************)
\* highest value the global counter may reach in the interner runs
MaxCount == 3
\* longest id list handed to multi_get_or_create_shorteventid
MaxMulti == 2
\* highest value of the global counter in the sending-queue runs
MaxSendCount == 4
\* most requests in one queue_requests call
MaxBatch == 1
\* most PDUs in one federation transaction
MaxPdus == 2
\* the counter value at which no more timeline events are appended
MaxSyncCount == 4
\* the longest long-poll timeout a client asks for, in seconds
MaxTimeout == 31
\* the counter value at which the room of the timeline window gets no more events
MaxWindowCount == 14
\* most events of another room between them
MaxOtherRoomEvents == 1
\* the counter value at which no more to-device events are queued
MaxDeviceCount == 5
\* the counter value at which no more events are appended to the lazily loaded room
MaxLazyCount == 5
\* the number of events in the room whose heroes are calculated
MaxHeroEvents == 7
\* events in the initial_state of a createRoom request
MaxInitialState == 2
\* messages the creator of a room sends after createRoom, and its /sync calls
MaxFirstMessages == 1
MaxFirstSyncs == 2
\* the longest file name that is sanitised
MaxNameLen == 3
\* the counter value up to which state events are appended next to /sync
MaxTokenCount == 5
\* the most EDUs in a transaction, and the transactions received
MaxEdus == 2
MaxEduReceived == 2
\* the greatest limit of a get_missing_events request
MaxLimit == 4
\* the most joined rooms of a sliding-sync user, and the greatest index asked for
MaxJoinedRooms == 3
MaxRangeIndex == 4

(***************************************************************************)
(* Option / Result values: <<v>> is Some(v) or Ok(v), <<>> is None or Err. *)
(***************************************************************************)
Some(v) == <<v>>
None == <<>>
Ok(v) == <<v>>
Err == <<>>

(***************************************************************************)
(* Key-value tree primitives (the engine under KeyValueDatabase).          *)
(***************************************************************************)
EmptyTree == <<>>
tree_get(tree, key) == IF key \in DOMAIN tree THEN Some(tree[key]) ELSE None
tree_insert(tree, key, value) ==
    [k \in (DOMAIN tree) \cup {key} |-> IF k = key THEN value ELSE tree[k]]
tree_remove(tree, key) == [k \in (DOMAIN tree) \ {key} |-> tree[k]]

(***************************************************************************)
(* u64 <-> 8 big-endian bytes.                                             *)
(***************************************************************************)
U64Len == 8
RECURSIVE be_bytes(_, _)
be_bytes(n, len) ==
    IF len = 0 THEN <<>> ELSE Append(be_bytes(n \div 256, len - 1), n % 256)
to_be_bytes(n) == be_bytes(n, U64Len)
RECURSIVE from_be_bytes(_)
from_be_bytes(b) ==
    IF Len(b) = 0 THEN 0
    ELSE from_be_bytes(SubSeq(b, 1, Len(b) - 1)) * 256 + b[Len(b)]
u64_from_bytes(b) == IF Len(b) = U64Len THEN Ok(from_be_bytes(b)) ELSE Err

(***************************************************************************)
(* The global counter (service/globals/data.rs).                           *)
(***************************************************************************)
\* b"c"
COUNTER == <<99>>
\* utils::increment: absent or malformed starts at one
increment_bytes(old) ==
    IF old # None /\ Len(old[1]) = U64Len
    THEN to_be_bytes(from_be_bytes(old[1]) + 1)
    ELSE to_be_bytes(1)
\* KvTree::increment: one atomic read-modify-write of the tree
increment(tree, key) == tree_insert(tree, key, increment_bytes(tree_get(tree, key)))
\* next_count: the tree after the increment and the value returned
next_count_reset(tree) ==
    [tree |-> tree_insert(tree, COUNTER, to_be_bytes(1)), ret |-> Ok(1)]
next_count(tree) ==
    [tree |-> increment(tree, COUNTER),
     ret  |-> u64_from_bytes(increment(tree, COUNTER)[COUNTER])]
current_count_from_one(tree) ==
    IF tree_get(tree, COUNTER) = None THEN Ok(1)
    ELSE u64_from_bytes(tree_get(tree, COUNTER)[1])
current_count(tree) ==
    IF tree_get(tree, COUNTER) = None THEN Ok(0)
    ELSE u64_from_bytes(tree_get(tree, COUNTER)[1])

(***************************************************************************)
(* Identifiers of the short-id interner (service/rooms/short/data.rs).     *)
(***************************************************************************)
\* "$a", "$b"
EventIds == {<<36, 97>>, <<36, 98>>}
\* (event type, state key): ("m", ""), ("m", "@"), ("", "m")
StateKeys == {<< <<109>>, <<>> >>, << <<109>>, <<64>> >>, << <<>>, <<109>> >>}
\* "!r", "!s"
RoomIds == {<<33, 114>>, <<33, 115>>}
ShortTasks == {"t1", "t2"}

VARIABLES
    global,                 \* the `global` tree holding COUNTER
    eventid_shorteventid,   \* event id -> shorteventid
    shorteventid_eventid,   \* shorteventid -> event id
    statekey_shortstatekey, \* type 0xFF state_key -> shortstatekey
    shortstatekey_statekey, \* shortstatekey -> type 0xFF state_key
    roomid_shortroomid,     \* room id -> shortroomid
    short_task              \* the calls in progress, one record per task

shortVars == <<eventid_shorteventid, shorteventid_eventid, statekey_shortstatekey,
               shortstatekey_statekey, roomid_shortroomid, short_task>>

(***************************************************************************)
(* Conversions used by the interner.                                       *)
(***************************************************************************)
\* utils::string_from_bytes: the model's strings are ASCII, 0xFF is never valid
string_from_bytes(b) == IF \A j \in 1..Len(b) : b[j] < 128 THEN Ok(b) ELSE Err
\* EventId::parse_arc: an event id starts with the '$' sigil
parse_event_id(s) == IF Len(s) >= 1 /\ s[1] = 36 THEN Ok(s) ELSE Err
\* event type, 0xFF, state key
statekey_vec_swapped(event_type, state_key) == state_key \o <<255>> \o event_type
statekey_vec(event_type, state_key) == event_type \o <<255>> \o state_key
\* bytes.splitn(2, |&b| b == 0xFF): index of the first 0xFF, or 0
first_sep(b) ==
    IF \E j \in 1..Len(b) : b[j] = 255
    THEN CHOOSE j \in 1..Len(b) : b[j] = 255 /\ \A k \in 1..(j - 1) : b[k] # 255
    ELSE 0

get_eventid_from_short(tree, shorteventid) ==
    LET bytes == tree_get(tree, to_be_bytes(shorteventid)) IN
    IF bytes = None THEN Err
    ELSE IF string_from_bytes(bytes[1]) = Err THEN Err
    ELSE parse_event_id(string_from_bytes(bytes[1])[1])

get_statekey_from_short(tree, shortstatekey) ==
    LET bytes == tree_get(tree, to_be_bytes(shortstatekey)) IN
    IF bytes = None THEN Err
    ELSE LET b == bytes[1]
             j == first_sep(b)
         IN IF j = 0 THEN Err
            ELSE LET event_type == string_from_bytes(SubSeq(b, 1, j - 1))
                     state_key  == string_from_bytes(SubSeq(b, j + 1, Len(b)))
                 IN IF event_type = Err \/ state_key = Err THEN Err
                    ELSE Ok(<<event_type[1], state_key[1]>>)

get_shortroomid(tree, room_id) ==
    LET bytes == tree_get(tree, room_id) IN
    IF bytes = None THEN Ok(None)
    ELSE IF u64_from_bytes(bytes[1]) = Err THEN Err
    ELSE Ok(Some(u64_from_bytes(bytes[1])[1]))

(***************************************************************************)
(* The calls of the interner, one database operation per step.  A task     *)
(* record holds the call's position and locals.                            *)
(***************************************************************************)
IdleTask == [pc |-> "idle", op |-> "none", arg |-> <<>>, got |-> <<>>, i |-> 0,
             short |-> 0, ret |-> <<>>, res |-> <<>>, created |-> FALSE]
set_task(t, rec) == short_task' = [short_task EXCEPT ![t] = rec]
count_now == current_count(global)[1]
\* value of a lookup hit (0 for a miss, filled in later)
hit_value(opt) == IF opt = None THEN 0 ELSE u64_from_bytes(opt[1])[1]
\* first index >= i the lookup missed, Len + 1 when there is none
next_miss(got, i) ==
    IF \E j \in i..Len(got) : got[j] = None
    THEN CHOOSE j \in i..Len(got) : got[j] = None /\ \A k \in i..(j - 1) : got[k] # None
    ELSE Len(got) + 1

\* id lists without repetition
MultiArgs ==
    {ids \in UNION {[1..n -> EventIds] : n \in 1..MaxMulti} :
        \A j, k \in DOMAIN ids : ids[j] = ids[k] => j = k}

\* a task starts one call
short_call(t) ==
    /\ short_task[t].pc = "idle"
    /\ \E call \in ({"get_or_create_shorteventid"} \X {<<e>> : e \in EventIds})
                   \cup ({"multi_get_or_create_shorteventid"} \X MultiArgs)
                   \cup ({"get_or_create_shortstatekey"} \X StateKeys)
                   \cup ({"get_or_create_shortroomid"} \X {<<r>> : r \in RoomIds}) :
          set_task(t, [IdleTask EXCEPT !.pc = "get", !.op = call[1], !.arg = call[2]])
    /\ UNCHANGED <<global, eventid_shorteventid, shorteventid_eventid,
                   statekey_shortstatekey, shortstatekey_statekey, roomid_shortroomid>>

get_or_create_shorteventid(t) ==
    LET c == short_task[t]
        event_id == c.arg[1]
    IN
    /\ c.op = "get_or_create_shorteventid"
    /\ \/ /\ c.pc = "get"
          /\ LET got == tree_get(eventid_shorteventid, event_id) IN
               IF got # None
               THEN set_task(t, [c EXCEPT !.pc = "ret", !.ret = <<hit_value(got)>>])
               ELSE set_task(t, [c EXCEPT !.pc = "alloc"])
          /\ UNCHANGED <<global, eventid_shorteventid, shorteventid_eventid>>
       \/ /\ c.pc = "alloc"
          /\ count_now < MaxCount
          /\ global' = next_count(global).tree
          /\ set_task(t, [c EXCEPT !.pc = "ins_fwd", !.short = next_count(global).ret[1]])
          /\ UNCHANGED <<eventid_shorteventid, shorteventid_eventid>>
       \/ /\ c.pc = "ins_fwd"
          /\ eventid_shorteventid' = tree_insert(eventid_shorteventid, event_id, to_be_bytes(c.short))
          /\ set_task(t, [c EXCEPT !.pc = "ins_rev"])
          /\ UNCHANGED <<global, shorteventid_eventid>>
       \/ /\ c.pc = "ins_rev"
          /\ shorteventid_eventid' = tree_insert(shorteventid_eventid, to_be_bytes(c.short), event_id)
          /\ set_task(t, [c EXCEPT !.pc = "ret", !.ret = <<c.short>>, !.created = TRUE])
          /\ UNCHANGED <<global, eventid_shorteventid>>
    /\ UNCHANGED <<statekey_shortstatekey, shortstatekey_statekey, roomid_shortroomid>>

multi_get_or_create_shorteventid(t) ==
    LET c == short_task[t]
        keys == c.arg
    IN
    /\ c.op = "multi_get_or_create_shorteventid"
    /\ \/ /\ c.pc = "get"
          /\ LET got == [j \in 1..Len(keys) |-> tree_get(eventid_shorteventid, keys[j])]
                 i == next_miss(got, 1)
             IN set_task(t, [c EXCEPT !.got = got, !.i = i,
                                      !.ret = [j \in 1..Len(keys) |-> hit_value(got[j])],
                                      !.pc = IF i > Len(keys) THEN "ret" ELSE "alloc"])
          /\ UNCHANGED <<global, eventid_shorteventid, shorteventid_eventid>>
       \/ /\ c.pc = "alloc"
          /\ count_now < MaxCount
          /\ global' = next_count(global).tree
          /\ set_task(t, [c EXCEPT !.pc = "ins_fwd", !.short = next_count(global).ret[1]])
          /\ UNCHANGED <<eventid_shorteventid, shorteventid_eventid>>
       \/ /\ c.pc = "ins_fwd"
          /\ eventid_shorteventid' = tree_insert(eventid_shorteventid, keys[c.i], to_be_bytes(c.short))
          /\ set_task(t, [c EXCEPT !.pc = "ins_rev"])
          /\ UNCHANGED <<global, shorteventid_eventid>>
       \/ /\ c.pc = "ins_rev"
          /\ shorteventid_eventid' = tree_insert(shorteventid_eventid, to_be_bytes(c.short), keys[c.i])
          /\ LET i == next_miss(c.got, c.i + 1) IN
               set_task(t, [c EXCEPT !.ret = [c.ret EXCEPT ![c.i] = c.short], !.i = i,
                                     !.created = TRUE,
                                     !.pc = IF i > Len(keys) THEN "ret" ELSE "alloc"])
          /\ UNCHANGED <<global, eventid_shorteventid>>
    /\ UNCHANGED <<statekey_shortstatekey, shortstatekey_statekey, roomid_shortroomid>>

get_or_create_shortstatekey(t) ==
    LET c == short_task[t]
        key == statekey_vec(c.arg[1], c.arg[2])
    IN
    /\ c.op = "get_or_create_shortstatekey"
    /\ \/ /\ c.pc = "get"
          /\ LET got == tree_get(statekey_shortstatekey, key) IN
               IF got # None
               THEN set_task(t, [c EXCEPT !.pc = "ret", !.ret = <<hit_value(got)>>])
               ELSE set_task(t, [c EXCEPT !.pc = "alloc"])
          /\ UNCHANGED <<global, statekey_shortstatekey, shortstatekey_statekey>>
       \/ /\ c.pc = "alloc"
          /\ count_now < MaxCount
          /\ global' = next_count(global).tree
          /\ set_task(t, [c EXCEPT !.pc = "ins_fwd", !.short = next_count(global).ret[1]])
          /\ UNCHANGED <<statekey_shortstatekey, shortstatekey_statekey>>
       \/ /\ c.pc = "ins_fwd"
          /\ statekey_shortstatekey' = tree_insert(statekey_shortstatekey, key, to_be_bytes(c.short))
          /\ set_task(t, [c EXCEPT !.pc = "ins_rev"])
          /\ UNCHANGED <<global, shortstatekey_statekey>>
       \/ /\ c.pc = "ins_rev"
          /\ shortstatekey_statekey' = tree_insert(shortstatekey_statekey, to_be_bytes(c.short), key)
          /\ set_task(t, [c EXCEPT !.pc = "ret", !.ret = <<c.short>>, !.created = TRUE])
          /\ UNCHANGED <<global, statekey_shortstatekey>>
    /\ UNCHANGED <<eventid_shorteventid, shorteventid_eventid, roomid_shortroomid>>

get_or_create_shortroomid(t) ==
    LET c == short_task[t]
        room_id == c.arg[1]
    IN
    /\ c.op = "get_or_create_shortroomid"
    /\ \/ /\ c.pc = "get"
          /\ LET got == tree_get(roomid_shortroomid, room_id) IN
               IF got # None
               THEN set_task(t, [c EXCEPT !.pc = "ret", !.ret = <<hit_value(got)>>])
               ELSE set_task(t, [c EXCEPT !.pc = "alloc"])
          /\ UNCHANGED <<global, roomid_shortroomid>>
       \/ /\ c.pc = "alloc"
          /\ count_now < MaxCount
          /\ global' = next_count(global).tree
          /\ set_task(t, [c EXCEPT !.pc = "ins_fwd", !.short = next_count(global).ret[1]])
          /\ UNCHANGED roomid_shortroomid
       \/ /\ c.pc = "ins_fwd"
          /\ roomid_shortroomid' = tree_insert(roomid_shortroomid, room_id, to_be_bytes(c.short))
          /\ set_task(t, [c EXCEPT !.pc = "ret", !.ret = <<c.short>>, !.created = TRUE])
          /\ UNCHANGED global
    /\ UNCHANGED <<eventid_shorteventid, shorteventid_eventid,
                   statekey_shortstatekey, shortstatekey_statekey>>

\* the caller resolves the short id it was handed
short_resolve(t) ==
    LET c == short_task[t] IN
    /\ c.pc = "ret"
    /\ set_task(t, [c EXCEPT !.pc = "done", !.res =
          CASE c.op = "get_or_create_shorteventid" ->
                 <<get_eventid_from_short(shorteventid_eventid, c.ret[1])>>
            [] c.op = "multi_get_or_create_shorteventid" ->
                 [j \in 1..Len(c.ret) |-> get_eventid_from_short(shorteventid_eventid, c.ret[j])]
            [] c.op = "get_or_create_shortstatekey" ->
                 <<get_statekey_from_short(shortstatekey_statekey, c.ret[1])>>
            [] OTHER -> <<get_shortroomid(roomid_shortroomid, c.arg[1])>>])
    /\ UNCHANGED <<global, eventid_shorteventid, shorteventid_eventid,
                   statekey_shortstatekey, shortstatekey_statekey, roomid_shortroomid>>

short_return(t) ==
    /\ short_task[t].pc = "done"
    /\ set_task(t, IdleTask)
    /\ UNCHANGED <<global, eventid_shorteventid, shorteventid_eventid,
                   statekey_shortstatekey, shortstatekey_statekey, roomid_shortroomid>>

short_step(t) ==
    \/ short_call(t)
    \/ get_or_create_shorteventid(t)
    \/ multi_get_or_create_shorteventid(t)
    \/ get_or_create_shortstatekey(t)
    \/ get_or_create_shortroomid(t)
    \/ short_resolve(t)
    \/ short_return(t)

(***************************************************************************)
(* Callers of the global counter.  count_alloc and count_log record the    *)
(* values allocated by increments and the values returned by next_count,   *)
(* in order; a call remembers in `seen` the values returned before it      *)
(* started and in `last` the latest allocation when it read the counter.   *)
(***************************************************************************)
CountTasks == {"c1", "c2"}
VARIABLES count_task, count_alloc, count_log
countVars == <<count_task, count_alloc, count_log>>
IdleCount == [pc |-> "idle", op |-> "none", ret |-> 0, seen |-> {}, last |-> 0]
seq_range(q) == {q[j] : j \in DOMAIN q}
last_or_zero(q) == IF q = <<>> THEN 0 ELSE q[Len(q)]

count_call(t) ==
    /\ count_task[t].pc = "idle"
    /\ \E op \in {"next_count", "current_count"} :
          count_task' = [count_task EXCEPT ![t] =
              [IdleCount EXCEPT !.pc = "called", !.op = op, !.seen = seq_range(count_log)]]
    /\ UNCHANGED <<global, count_alloc, count_log>>

next_count_call(t) ==
    /\ count_task[t].pc = "called"
    /\ count_task[t].op = "next_count"
    /\ count_now < MaxCount
    /\ global' = next_count(global).tree
    /\ count_alloc' = Append(count_alloc, from_be_bytes(global'[COUNTER]))
    /\ count_task' = [count_task EXCEPT ![t].pc = "got", ![t].ret = next_count(global).ret[1]]
    /\ UNCHANGED count_log

current_count_call(t) ==
    /\ count_task[t].pc = "called"
    /\ count_task[t].op = "current_count"
    /\ count_task' = [count_task EXCEPT ![t].pc = "got", ![t].ret = current_count(global)[1],
                                        ![t].last = last_or_zero(count_alloc)]
    /\ UNCHANGED <<global, count_alloc, count_log>>

count_return(t) ==
    /\ count_task[t].pc = "got"
    /\ count_task' = [count_task EXCEPT ![t].pc = "returned"]
    /\ count_log' = IF count_task[t].op = "next_count"
                    THEN Append(count_log, count_task[t].ret) ELSE count_log
    /\ UNCHANGED <<global, count_alloc>>

count_finish(t) ==
    /\ count_task[t].pc = "returned"
    /\ count_task' = [count_task EXCEPT ![t] = IdleCount]
    /\ UNCHANGED <<global, count_alloc, count_log>>

(***************************************************************************)
(* The outbound sending queue (service/sending/data.rs).                   *)
(***************************************************************************)
\* Normal("a")
Destinations == {[kind |-> "Normal", id |-> <<97>>, pushkey |-> <<>>]}
\* the payload of the EDUs that get queued: "e"
EduValues == {<<101>>}

VARIABLES
    servernameevent_data,     \* queued events: destination prefix ++ event key -> EDU bytes
    servercurrentevent_data,  \* active events, same layout
    send_pdus,                \* pdu ids of the events appended to the rooms
    send_worker,              \* per destination: the sender's mark_as_active call
    queue_order,              \* keys in the queued tree, in the order they were queued
    send_pending              \* keys queued and not yet deleted from the active tree
sendVars == <<servernameevent_data, servercurrentevent_data, send_pdus, send_worker,
              queue_order, send_pending>>

\* Destination::get_prefix, the layout parse_servercurrentevent reads back
get_prefix(destination) ==
    CASE destination.kind = "Appservice" -> <<43>> \o destination.id \o <<255>>
      [] destination.kind = "Push" ->
             <<36>> \o destination.id \o <<255>> \o destination.pushkey \o <<255>>
      [] OTHER -> destination.id \o <<255>>

\* a pdu id is the room's shortroomid followed by the event's count
pdu_id(shortroomid, count) == to_be_bytes(shortroomid) \o to_be_bytes(count)

starts_with(key, prefix) ==
    Len(key) >= Len(prefix) /\ SubSeq(key, 1, Len(prefix)) = prefix
\* byte-wise lexicographic order of the tree's keys
RECURSIVE bytes_lt_from(_, _, _)
bytes_lt_from(a, b, j) ==
    IF j > Len(b) THEN FALSE
    ELSE IF j > Len(a) THEN TRUE
    ELSE IF a[j] # b[j] THEN a[j] < b[j]
    ELSE bytes_lt_from(a, b, j + 1)
bytes_lt(a, b) == bytes_lt_from(a, b, 1)
RECURSIVE sorted_keys(_)
sorted_keys(keys) ==
    IF keys = {} THEN <<>>
    ELSE LET key == CHOOSE k \in keys : TRUE
             rest == sorted_keys(keys \ {key})
             before == Cardinality({l \in keys : bytes_lt(l, key)})
         IN SubSeq(rest, 1, before) \o <<key>> \o SubSeq(rest, before + 1, Len(rest))
\* KvTree::scan_prefix: the (key, value) pairs under a prefix in key order
scan_prefix(tree, prefix) ==
    LET keys == sorted_keys({k \in DOMAIN tree : starts_with(k, prefix)})
    IN [j \in 1..Len(keys) |-> <<keys[j], tree[keys[j]]>>]

event_of(key_rest, value) ==
    IF value = <<>> THEN [kind |-> "Pdu", value |-> key_rest]
    ELSE [kind |-> "Edu", value |-> value]
parse_servercurrentevent(key, value) ==
    LET body == IF Len(key) >= 1 /\ key[1] \in {43, 36} THEN SubSeq(key, 2, Len(key)) ELSE key
        j == first_sep(body)
        rest == SubSeq(body, j + 1, Len(body))
    IN IF j = 0 THEN Err
       ELSE IF Len(key) >= 1 /\ key[1] = 43
       THEN Ok(<<[kind |-> "Appservice", id |-> SubSeq(body, 1, j - 1), pushkey |-> <<>>],
                 event_of(rest, value)>>)
       ELSE IF Len(key) >= 1 /\ key[1] = 36
       THEN LET k == first_sep(rest) IN
            IF k = 0 THEN Err
            ELSE Ok(<<[kind |-> "Push", id |-> SubSeq(body, 1, j - 1),
                       pushkey |-> SubSeq(rest, 1, k - 1)],
                      event_of(SubSeq(rest, k + 1, Len(rest)), value)>>)
       ELSE Ok(<<[kind |-> "Normal", id |-> SubSeq(body, 1, j - 1), pushkey |-> <<>>],
                 event_of(rest, value)>>)

\* queue_requests: the keys of a batch, the counter tree after the EDU keys
RECURSIVE queue_keys(_, _)
queue_keys(counter_tree, requests) ==
    IF requests = <<>> THEN [tree |-> counter_tree, batch |-> <<>>]
    ELSE LET destination == requests[1][1]
             event == requests[1][2]
             nc == next_count(counter_tree)
             key == IF event.kind = "Pdu" THEN get_prefix(destination) \o event.value
                    ELSE get_prefix(destination) \o to_be_bytes(nc.ret[1])
             value == IF event.kind = "Edu" THEN event.value ELSE <<>>
             tail == queue_keys(IF event.kind = "Pdu" THEN counter_tree ELSE nc.tree,
                                Tail(requests))
         IN [tree |-> tail.tree, batch |-> <<<<key, value>>>> \o tail.batch]
\* KvTree::insert_batch
RECURSIVE insert_batch(_, _)
insert_batch(tree, batch) ==
    IF batch = <<>> THEN tree
    ELSE insert_batch(tree_insert(tree, batch[1][1], batch[1][2]), Tail(batch))

\* queued_requests: (event, key) pairs of a destination in scan order
queued_requests(tree, destination) ==
    LET found == scan_prefix(tree, get_prefix(destination))
    IN [j \in 1..Len(found) |->
           <<parse_servercurrentevent(found[j][1], found[j][2])[1][2], found[j][1]>>]

\* the two database writes mark_as_active makes for one event
mark_as_active_insert_removing(active, queued, key, value) ==
    [active |-> active, queued |-> tree_remove(queued, key)]
mark_as_active_insert(active, queued, key, value) ==
    [active |-> tree_insert(active, key, value), queued |-> queued]
mark_as_active_remove(active, queued, key) ==
    [active |-> active, queued |-> tree_remove(queued, key)]

\* ghost bookkeeping of the queue order
RECURSIVE order_add(_, _)
order_add(order, batch) ==
    IF batch = <<>> THEN order
    ELSE order_add(IF batch[1][1] \in seq_range(order) THEN order
                   ELSE Append(order, batch[1][1]), Tail(batch))
order_remove(order, key) == SelectSeq(order, LAMBDA k : k # key)

IdleWorker == [pc |-> "idle", events |-> <<>>, i |-> 0]
SendEvents ==
    {[kind |-> "Pdu", value |-> p] : p \in send_pdus}
    \cup {[kind |-> "Edu", value |-> v] : v \in EduValues}
SendBatches == UNION {[1..n -> Destinations \X SendEvents] : n \in 1..MaxBatch}

\* an event is appended to a room's timeline and gets its pdu id
send_append_pdu(room_id) ==
    /\ count_now < MaxSendCount
    /\ global' = next_count(global).tree
    /\ send_pdus' = send_pdus \cup {pdu_id(get_shortroomid(roomid_shortroomid, room_id)[1][1],
                                            next_count(global).ret[1])}
    /\ UNCHANGED <<servernameevent_data, servercurrentevent_data, send_worker,
                   queue_order, send_pending>>

queue_requests(requests) ==
    LET q == queue_keys(global, requests) IN
    /\ current_count(q.tree)[1] <= MaxSendCount
    /\ global' = q.tree
    /\ servernameevent_data' = insert_batch(servernameevent_data, q.batch)
    /\ queue_order' = order_add(queue_order, q.batch)
    /\ send_pending' = send_pending \cup {q.batch[j][1] : j \in DOMAIN q.batch}
    /\ UNCHANGED <<servercurrentevent_data, send_pdus, send_worker>>

\* the sender of a destination takes the first n queued events
send_select(destination, n) ==
    LET queued == queued_requests(servernameevent_data, destination) IN
    /\ send_worker[destination].pc = "idle"
    /\ n <= Len(queued)
    /\ send_worker' = [send_worker EXCEPT ![destination] =
          [pc |-> "insert", events |-> SubSeq(queued, 1, n), i |-> 1]]
    /\ UNCHANGED <<global, servernameevent_data, servercurrentevent_data, send_pdus,
                   queue_order, send_pending>>

\* mark_as_active, one database write per step
mark_as_active(destination) ==
    LET w == send_worker[destination]
        e == w.events[w.i][1]
        key == w.events[w.i][2]
        value == IF e.kind = "Edu" THEN e.value ELSE <<>>
    IN
    /\ \/ /\ w.pc = "insert"
          /\ LET dbs == mark_as_active_insert(servercurrentevent_data, servernameevent_data,
                                              key, value)
             IN /\ servercurrentevent_data' = dbs.active
                /\ servernameevent_data' = dbs.queued
                /\ queue_order' = SelectSeq(queue_order, LAMBDA k : k \in DOMAIN dbs.queued)
          /\ send_worker' = [send_worker EXCEPT ![destination].pc = "remove"]
       \/ /\ w.pc = "remove"
          /\ LET dbs == mark_as_active_remove(servercurrentevent_data, servernameevent_data, key)
             IN /\ servercurrentevent_data' = dbs.active
                /\ servernameevent_data' = dbs.queued
                /\ queue_order' = SelectSeq(queue_order, LAMBDA k : k \in DOMAIN dbs.queued)
          /\ send_worker' = [send_worker EXCEPT ![destination] =
                IF w.i = Len(w.events) THEN IdleWorker
                ELSE [w EXCEPT !.pc = "insert", !.i = w.i + 1]]
    /\ UNCHANGED <<global, send_pdus, send_pending>>

\* the sender stops (shutdown or crash) wherever it is
send_stop(destination) ==
    /\ send_worker[destination].pc # "idle"
    /\ send_worker' = [send_worker EXCEPT ![destination] = IdleWorker]
    /\ UNCHANGED <<global, servernameevent_data, servercurrentevent_data, send_pdus,
                   queue_order, send_pending>>

\* the sender of the key's destination deletes a delivered event
delete_active_request(key) ==
    /\ key \in DOMAIN servercurrentevent_data
    /\ \A d \in Destinations : starts_with(key, get_prefix(d)) => send_worker[d].pc = "idle"
    /\ servercurrentevent_data' = tree_remove(servercurrentevent_data, key)
    /\ send_pending' = send_pending \ {key}
    /\ UNCHANGED <<global, servernameevent_data, send_pdus, send_worker, queue_order>>

delete_all_active_requests_for(destination) ==
    LET found == scan_prefix(servercurrentevent_data, get_prefix(destination))
        keys == {found[j][1] : j \in DOMAIN found}
    IN
    /\ send_worker[destination].pc = "idle"
    /\ keys # {}
    /\ servercurrentevent_data' =
          [k \in DOMAIN servercurrentevent_data \ keys |-> servercurrentevent_data[k]]
    /\ send_pending' = send_pending \ keys
    /\ UNCHANGED <<global, servernameevent_data, send_pdus, send_worker, queue_order>>

(***************************************************************************)
(* Incoming federation requests (api/server_server.rs): /send transactions,*)
(* send_join and send_leave, and the per-room federation mutex.            *)
(***************************************************************************)
FedRequests == {"q1", "q2"}
\* the PDUs a remote server sends: "$a" of room "!r", "$b" of room "!s", and
\* "$c" of room "!r", which parse_incoming_pdu rejects
FedPdus == {[event_id |-> <<36, 97>>, room_id |-> <<33, 114>>, parses |-> TRUE],
            [event_id |-> <<36, 98>>, room_id |-> <<33, 115>>, parses |-> TRUE],
            [event_id |-> <<36, 99>>, room_id |-> <<33, 114>>, parses |-> FALSE]}
FedBodies == UNION {[1..n -> FedPdus] : n \in 1..MaxPdus}
Free == "free"

VARIABLES
    roomid_mutex_federation,  \* room id -> the request holding the mutex, or Free
    fed_task                  \* per request: position, body, resolved_map, response
fedVars == <<roomid_mutex_federation, fed_task>>

IdleFed == [pc |-> "idle", kind |-> "none", body |-> <<>>, parsed_pdus |-> <<>>, i |-> 0,
            resolved_map |-> <<>>, handled |-> <<>>, edu_failed |-> FALSE,
            response |-> [ok |-> FALSE, pdus |-> <<>>]]

\* parse_incoming_pdu over the body: PDUs that do not parse are skipped
parsed(body) == SelectSeq(body, LAMBDA pdu : pdu.parses)
\* mutex.lock().await completes when nobody holds the room's mutex
federation_mutex_no_wait(room_id) == TRUE
federation_mutex_free(room_id) == roomid_mutex_federation[room_id] = Free
\* the transaction's bookkeeping when handle_incoming_pdu returned
txn_handled_abort(c, result) ==
    [c EXCEPT !.pc = "unlock",
              !.resolved_map = tree_insert(c.resolved_map, c.parsed_pdus[c.i].event_id, result),
              !.handled = Append(c.handled, <<c.parsed_pdus[c.i].event_id, result>>),
              !.parsed_pdus = IF result = "err" THEN SubSeq(c.parsed_pdus, 1, c.i)
                              ELSE c.parsed_pdus]
txn_handled(c, result) ==
    [c EXCEPT !.pc = "unlock",
              !.resolved_map = tree_insert(c.resolved_map, c.parsed_pdus[c.i].event_id, result),
              !.handled = Append(c.handled, <<c.parsed_pdus[c.i].event_id, result>>)]

\* a request arrives; a transaction parses its PDUs first
fed_receive(q) ==
    /\ fed_task[q].pc = "idle"
    /\ \E kind \in {"send_transaction_message", "create_join_event", "create_leave_event"},
          body \in FedBodies :
          /\ kind # "send_transaction_message" => Len(body) = 1 /\ body[1].parses
          /\ fed_task' = [fed_task EXCEPT ![q] =
                [IdleFed EXCEPT !.kind = kind, !.body = body, !.parsed_pdus = parsed(body), !.i = 1,
                                !.pc = IF parsed(body) = <<>> THEN "edus" ELSE "lock"]]
    /\ UNCHANGED roomid_mutex_federation

\* roomid_mutex_federation entry(room_id).or_default(), lock().await
fed_lock(q) ==
    LET c == fed_task[q]
        room_id == c.parsed_pdus[c.i].room_id
    IN
    /\ c.pc = "lock"
    /\ federation_mutex_free(room_id)
    /\ roomid_mutex_federation' = [roomid_mutex_federation EXCEPT ![room_id] = q]
    /\ fed_task' = [fed_task EXCEPT ![q].pc = "handling"]

\* handle_incoming_pdu returns; send_join and send_leave leave with `?` on an
\* error, which drops the guard
fed_handle(q) ==
    LET c == fed_task[q]
        room_id == c.parsed_pdus[c.i].room_id
    IN
    /\ c.pc = "handling"
    /\ \E result \in {"ok", "err"} :
          IF c.kind = "send_transaction_message"
          THEN /\ fed_task' = [fed_task EXCEPT ![q] = txn_handled(c, result)]
               /\ UNCHANGED roomid_mutex_federation
          ELSE IF result = "err"
          THEN /\ fed_task' = [fed_task EXCEPT ![q].pc = "done",
                                  ![q].handled = Append(c.handled, <<c.parsed_pdus[c.i].event_id, result>>),
                                  ![q].response = [ok |-> FALSE, pdus |-> <<>>]]
               /\ roomid_mutex_federation' = [roomid_mutex_federation EXCEPT ![room_id] = Free]
          ELSE /\ fed_task' = [fed_task EXCEPT ![q].pc = "unlock",
                                  ![q].handled = Append(c.handled, <<c.parsed_pdus[c.i].event_id, result>>)]
               /\ UNCHANGED roomid_mutex_federation

\* drop(mutex_lock)
fed_unlock(q) ==
    LET c == fed_task[q]
        room_id == c.parsed_pdus[c.i].room_id
    IN
    /\ c.pc = "unlock"
    /\ roomid_mutex_federation' = [roomid_mutex_federation EXCEPT ![room_id] = Free]
    /\ fed_task' = [fed_task EXCEPT ![q] =
          IF c.kind # "send_transaction_message"
          THEN [c EXCEPT !.pc = "done", !.response = [ok |-> TRUE, pdus |-> <<>>]]
          ELSE IF c.i = Len(c.parsed_pdus) THEN [c EXCEPT !.pc = "edus"]
          ELSE [c EXCEPT !.pc = "lock", !.i = c.i + 1]]

\* the EDUs of the transaction are handled, an error leaves the route with `?`
fed_edus(q) ==
    LET c == fed_task[q] IN
    /\ c.pc = "edus"
    /\ \E failed \in BOOLEAN :
          fed_task' = [fed_task EXCEPT ![q].pc = "done", ![q].edu_failed = failed,
                          ![q].response = IF failed THEN [ok |-> FALSE, pdus |-> <<>>]
                                          ELSE [ok |-> TRUE, pdus |-> c.resolved_map]]
    /\ UNCHANGED roomid_mutex_federation

fed_finish(q) ==
    /\ fed_task[q].pc = "done"
    /\ fed_task' = [fed_task EXCEPT ![q] = IdleFed]
    /\ UNCHANGED roomid_mutex_federation

(***************************************************************************)
(* Room creation and room upgrade (api/client_server/room.rs) and the      *)
(* per-room state mutex.                                                   *)
(***************************************************************************)
RoomTasks == {"u1", "u2"}
\* "!r", "!s" and "!t"
ClientRoomIds == RoomIds \cup {<<33, 116>>}

VARIABLES
    roomid_mutex_state,  \* room id -> the request holding the mutex, or Free
    room_task            \* per request: route, rooms, position, its last append
roomVars == <<roomid_mutex_state, room_task>>

IdleRoom == [pc |-> "idle", room_id |-> <<>>, replacement_room |-> <<>>, ip |-> 0,
             state_lock |-> <<>>, appended |-> <<>>]

lock_of(target) == [kind |-> "lock", target |-> target, line |-> 0, optional |-> FALSE]
append_to(target, line, optional) ==
    [kind |-> "append", target |-> target, line |-> line, optional |-> optional]
drop_state_lock == [kind |-> "drop", target |-> "none", line |-> 0, optional |-> FALSE]

\* create_room_route after the short id of the room is created: the state
\* mutex of room_id, the events of the new room, drop(state_lock)
create_room_steps ==
    <<lock_of("room_id"),
      append_to("room_id", 215, FALSE), append_to("room_id", 233, FALSE),
      append_to("room_id", 280, FALSE), append_to("room_id", 299, TRUE),
      append_to("room_id", 324, FALSE), append_to("room_id", 347, FALSE),
      append_to("room_id", 366, FALSE), append_to("room_id", 413, TRUE),
      append_to("room_id", 422, TRUE), append_to("room_id", 442, TRUE),
      drop_state_lock>>

\* upgrade_room_route after the short id of the replacement room is created:
\* the tombstone under the lock of the old room, the lock is changed to the
\* replacement room, the events of the replacement room, the power levels of
\* the old room, drop(state_lock)
upgrade_room_steps ==
    <<lock_of("room_id"), append_to("room_id", 597, FALSE), drop_state_lock,
      lock_of("replacement_room"),
      append_to("replacement_room", 707, FALSE), append_to("replacement_room", 725, FALSE),
      append_to("replacement_room", 763, TRUE),
      append_to("room_id", 819, FALSE),
      drop_state_lock>>

steps_of(c) == IF c.pc = "create_room_route" THEN create_room_steps ELSE upgrade_room_steps
step_of(c) == steps_of(c)[c.ip]
target_of(c) == IF step_of(c).target = "room_id" THEN c.room_id ELSE c.replacement_room
running(c) == c.pc # "idle"
\* the request moves to its next step, or returns after the last one
advance(c) == IF c.ip = Len(steps_of(c)) THEN IdleRoom ELSE [c EXCEPT !.ip = c.ip + 1]
\* the guard the request holds is dropped when the route returns
released(mutexes, c) ==
    IF c.state_lock = <<>> THEN mutexes ELSE [mutexes EXCEPT ![c.state_lock] = Free]

\* POST /createRoom: the room id must not exist, its short id is created
create_room_route(t) ==
    /\ room_task[t].pc = "idle"
    /\ \E room_id \in ClientRoomIds :
          /\ get_shortroomid(roomid_shortroomid, room_id) = Ok(None)
          /\ global' = next_count(global).tree
          /\ roomid_shortroomid' =
                tree_insert(roomid_shortroomid, room_id, to_be_bytes(next_count(global).ret[1]))
          /\ room_task' = [room_task EXCEPT ![t] =
                [IdleRoom EXCEPT !.pc = "create_room_route", !.room_id = room_id, !.ip = 1]]
    /\ UNCHANGED roomid_mutex_state

\* POST /rooms/{roomId}/upgrade: a new replacement room id, its short id is created
upgrade_room_route(t) ==
    /\ room_task[t].pc = "idle"
    /\ \E room_id, replacement_room \in ClientRoomIds :
          /\ get_shortroomid(roomid_shortroomid, room_id) # Ok(None)
          /\ get_shortroomid(roomid_shortroomid, replacement_room) = Ok(None)
          /\ global' = next_count(global).tree
          /\ roomid_shortroomid' =
                tree_insert(roomid_shortroomid, replacement_room, to_be_bytes(next_count(global).ret[1]))
          /\ room_task' = [room_task EXCEPT ![t] =
                [IdleRoom EXCEPT !.pc = "upgrade_room_route", !.room_id = room_id,
                                 !.replacement_room = replacement_room, !.ip = 1]]
    /\ UNCHANGED roomid_mutex_state

\* roomid_mutex_state entry(room).or_default(), lock().await
room_lock(t) ==
    LET c == room_task[t] IN
    /\ running(c) /\ step_of(c).kind = "lock"
    /\ roomid_mutex_state[target_of(c)] = Free
    /\ roomid_mutex_state' = [roomid_mutex_state EXCEPT ![target_of(c)] = t]
    /\ room_task' = [room_task EXCEPT ![t] = [advance(c) EXCEPT !.state_lock = target_of(c)]]
    /\ UNCHANGED <<global, roomid_shortroomid>>

\* build_and_append_pdu(.., room, &state_lock) returns Ok
room_append(t) ==
    LET c == room_task[t] IN
    /\ running(c) /\ step_of(c).kind = "append"
    /\ room_task' = [room_task EXCEPT ![t] =
          [advance(c) EXCEPT !.appended =
              <<[room_id |-> target_of(c), line |-> step_of(c).line,
                 state_lock |-> c.state_lock,
                 holder |-> roomid_mutex_state[target_of(c)]]>>]]
    /\ UNCHANGED <<global, roomid_shortroomid, roomid_mutex_state>>

\* an event the request does not ask for, or state the old room does not have
room_skip(t) ==
    LET c == room_task[t] IN
    /\ running(c) /\ step_of(c).kind = "append" /\ step_of(c).optional
    /\ room_task' = [room_task EXCEPT ![t] = advance(c)]
    /\ UNCHANGED <<global, roomid_shortroomid, roomid_mutex_state>>

\* build_and_append_pdu returns Err and the route returns with `?`
room_fail(t) ==
    LET c == room_task[t] IN
    /\ running(c) /\ step_of(c).kind = "append"
    /\ roomid_mutex_state' = released(roomid_mutex_state, c)
    /\ room_task' = [room_task EXCEPT ![t] = IdleRoom]
    /\ UNCHANGED <<global, roomid_shortroomid>>

\* drop(state_lock)
room_drop(t) ==
    LET c == room_task[t] IN
    /\ running(c) /\ step_of(c).kind = "drop"
    /\ roomid_mutex_state' = released(roomid_mutex_state, c)
    /\ room_task' = [room_task EXCEPT ![t] = [advance(c) EXCEPT !.state_lock = <<>>]]
    /\ UNCHANGED <<global, roomid_shortroomid>>

(***************************************************************************)
(* /sync v3 (api/client_server/sync.rs), the timeline it reads and the     *)
(* per-room insert mutex.                                                  *)
(***************************************************************************)
SyncClients == {"s1"}
AppendTasks == {"w1", "w2"}
\* load_joined_room asks load_timeline for at most 10 events
TimelineLimit == 10

VARIABLES
    pduid_pdu,            \* the timeline: pdu id -> event
    roomid_mutex_insert,  \* room id -> the task holding the mutex, or Free
    append_task,          \* per appending task: position, room, count
    sync_task,            \* per client: position and locals of the running /sync
    sync_last,            \* the client's last response
    sync_prev             \* the response before it
syncVars == <<pduid_pdu, roomid_mutex_insert, append_task, sync_task, sync_last, sync_prev>>

\* u64::to_string and str::parse::<u64>
RECURSIVE to_string(_)
to_string(n) == IF n < 10 THEN <<48 + n>> ELSE to_string(n \div 10) \o <<48 + (n % 10)>>
RECURSIVE digits_value(_)
digits_value(string) ==
    IF string = <<>> THEN 0
    ELSE 10 * digits_value(SubSeq(string, 1, Len(string) - 1)) + (string[Len(string)] - 48)
parse_u64(string) ==
    IF string # <<>> /\ \A j \in DOMAIN string : string[j] \in 48..57
    THEN Ok(digits_value(string)) ELSE Err
\* body.since.and_then(parse().ok()).unwrap_or(0)
since_of(token) ==
    IF token = None \/ parse_u64(token[1]) = Err THEN 0 ELSE parse_u64(token[1])[1]

reverse(seq) == [j \in 1..Len(seq) |-> seq[Len(seq) + 1 - j]]
RECURSIVE take_while_after(_, _)
take_while_after(counts, since) ==
    IF counts = <<>> \/ ~(counts[1] > since) THEN <<>>
    ELSE <<counts[1]>> \o take_while_after(Tail(counts), since)
take(seq, n) == SubSeq(seq, 1, IF Len(seq) < n THEN Len(seq) ELSE n)
shortroomid_of(room_id) == get_shortroomid(roomid_shortroomid, room_id)[1][1]
\* the counts of a room's events, newest first
pdus_until(tree, shortroomid) ==
    LET found == scan_prefix(tree, to_be_bytes(shortroomid))
    IN reverse([j \in 1..Len(found) |->
                   from_be_bytes(SubSeq(found[j][1], U64Len + 1, 2 * U64Len))])
room_events(tree, room_id) == seq_range(pdus_until(tree, shortroomid_of(room_id)))
last_timeline_count(tree, shortroomid) ==
    LET newest_first == pdus_until(tree, shortroomid)
    IN IF newest_first = <<>> THEN 0 ELSE newest_first[1]
\* load_timeline: (timeline_pdus, limited), the last `limit` events after
\* since, oldest first, and whether an event after since is left out
load_timeline_oldest(tree, shortroomid, roomsincecount, limit) ==
    LET newest_first == pdus_until(tree, shortroomid)
        non_timeline_pdus == take_while_after(newest_first, roomsincecount)
    IN IF newest_first # <<>> /\ newest_first[1] > roomsincecount
       THEN <<take(reverse(non_timeline_pdus), limit), Len(non_timeline_pdus) > limit>>
       ELSE <<<<>>, FALSE>>
load_timeline_newest_first(tree, shortroomid, roomsincecount, limit) ==
    LET newest_first == pdus_until(tree, shortroomid)
        non_timeline_pdus == take_while_after(newest_first, roomsincecount)
    IN IF newest_first # <<>> /\ newest_first[1] > roomsincecount
       THEN <<take(non_timeline_pdus, limit), Len(non_timeline_pdus) > limit>>
       ELSE <<<<>>, FALSE>>
load_timeline(tree, shortroomid, roomsincecount, limit) ==
    LET newest_first == pdus_until(tree, shortroomid)
        non_timeline_pdus == take_while_after(newest_first, roomsincecount)
    IN IF newest_first # <<>> /\ newest_first[1] > roomsincecount
       THEN <<reverse(take(non_timeline_pdus, limit)), Len(non_timeline_pdus) > limit>>
       ELSE <<<<>>, FALSE>>

IdleAppend == [pc |-> "idle", room_id |-> <<>>, count |-> 0]
IdleSync == [pc |-> "idle", since |-> None, sincecount |-> 0, next_batch |-> 0,
             rooms |-> <<>>, timeline |-> {}, seen |-> <<>>, in_flight |-> {}]
allocating == {w \in AppendTasks : append_task[w].pc = "locked"}
in_flight_events ==
    {<<append_task[w].room_id, append_task[w].count>> :
        w \in {x \in AppendTasks : append_task[x].pc = "counted"}}

\* an appending task takes the insert mutex of the room
append_lock(w) ==
    /\ append_task[w].pc = "idle"
    /\ count_now + Cardinality(allocating) < MaxSyncCount
    /\ \E room_id \in RoomIds :
          /\ roomid_mutex_insert[room_id] = Free
          /\ roomid_mutex_insert' = [roomid_mutex_insert EXCEPT ![room_id] = w]
          /\ append_task' = [append_task EXCEPT ![w] =
                [IdleAppend EXCEPT !.pc = "locked", !.room_id = room_id]]
    /\ UNCHANGED <<global, pduid_pdu, sync_task, sync_last, sync_prev>>

\* the count of the event is allocated
append_count(w) ==
    /\ append_task[w].pc = "locked"
    /\ global' = next_count(global).tree
    /\ append_task' = [append_task EXCEPT ![w].pc = "counted",
                                          ![w].count = next_count(global).ret[1]]
    /\ UNCHANGED <<pduid_pdu, roomid_mutex_insert, sync_task, sync_last, sync_prev>>

\* the event is written to the timeline under its pdu id
append_insert(w) ==
    /\ append_task[w].pc = "counted"
    /\ pduid_pdu' = tree_insert(pduid_pdu,
          pdu_id(shortroomid_of(append_task[w].room_id), append_task[w].count), <<>>)
    /\ append_task' = [append_task EXCEPT ![w].pc = "inserted"]
    /\ UNCHANGED <<global, roomid_mutex_insert, sync_task, sync_last, sync_prev>>

\* the insert mutex is released
append_unlock(w) ==
    /\ append_task[w].pc = "inserted"
    /\ roomid_mutex_insert' = [roomid_mutex_insert EXCEPT ![append_task[w].room_id] = Free]
    /\ append_task' = [append_task EXCEPT ![w] = IdleAppend]
    /\ UNCHANGED <<global, pduid_pdu, sync_task, sync_last, sync_prev>>

\* the since tokens the client can send: none, or the last next_batch
since_tokens == {None} \cup (IF sync_last = <<>> THEN {} ELSE {Some(sync_last[1].next_batch)})

\* GET /sync: next_batch is sampled, since is parsed
sync_events_route(s) ==
    /\ sync_task[s].pc = "idle"
    /\ \E token \in since_tokens :
          sync_task' = [sync_task EXCEPT ![s] =
              [IdleSync EXCEPT !.pc = "insert_lock", !.since = token,
                               !.sincecount = since_of(token),
                               !.next_batch = current_count(global)[1],
                               !.rooms = sorted_keys(RoomIds),
                               !.in_flight = in_flight_events]]
    /\ UNCHANGED <<global, pduid_pdu, roomid_mutex_insert, append_task, sync_last, sync_prev>>

\* load_joined_room: mutex_insert.lock().await
insert_lock_no_wait(room_id) == TRUE
insert_lock_acquired(room_id) == roomid_mutex_insert[room_id] = Free
sync_insert_lock(s) ==
    LET c == sync_task[s] IN
    /\ c.pc = "insert_lock"
    /\ insert_lock_acquired(c.rooms[1])
    /\ roomid_mutex_insert' = [roomid_mutex_insert EXCEPT ![c.rooms[1]] = s]
    /\ sync_task' = [sync_task EXCEPT ![s].pc = "insert_drop"]
    /\ UNCHANGED <<global, pduid_pdu, append_task, sync_last, sync_prev>>

\* load_joined_room: drop(insert_lock)
sync_insert_drop(s) ==
    LET c == sync_task[s] IN
    /\ c.pc = "insert_drop"
    /\ roomid_mutex_insert' = [roomid_mutex_insert EXCEPT ![c.rooms[1]] = Free]
    /\ sync_task' = [sync_task EXCEPT ![s].pc = "load_timeline"]
    /\ UNCHANGED <<global, pduid_pdu, append_task, sync_last, sync_prev>>

\* load_joined_room: load_timeline(sender_user, room_id, sincecount, 10)
sync_load_timeline(s) ==
    LET c == sync_task[s]
        room_id == c.rooms[1]
        timeline_pdus == load_timeline(pduid_pdu, shortroomid_of(room_id), c.sincecount,
                                       TimelineLimit)[1]
    IN
    /\ c.pc = "load_timeline"
    /\ sync_task' = [sync_task EXCEPT ![s] =
          [c EXCEPT !.pc = IF Tail(c.rooms) = <<>> THEN "respond" ELSE "insert_lock",
                    !.rooms = Tail(c.rooms),
                    !.timeline = c.timeline \cup {<<room_id, timeline_pdus[j]>> : j \in DOMAIN timeline_pdus},
                    !.seen = tree_insert(c.seen, room_id,
                                seq_range(pdus_until(pduid_pdu, shortroomid_of(room_id))))]]
    /\ UNCHANGED <<global, pduid_pdu, roomid_mutex_insert, append_task, sync_last, sync_prev>>

\* the response, at once or after the long poll
sync_respond(s) ==
    LET c == sync_task[s] IN
    /\ c.pc = "respond"
    /\ sync_prev' = sync_last
    /\ sync_last' = <<[since |-> c.since, next_batch |-> to_string(c.next_batch),
                       timeline |-> c.timeline]>>
    /\ sync_task' = [sync_task EXCEPT ![s] = IdleSync]
    /\ UNCHANGED <<global, pduid_pdu, roomid_mutex_insert, append_task>>

(***************************************************************************)
(* The long poll of /sync (api/client_server/sync.rs) and the watcher of   *)
(* globals (service/globals/data.rs).                                      *)
(***************************************************************************)
PollClients == {"s1"}
\* "@u" and its device "d", joined to "!r"
SyncUser == <<64, 117>>
SyncDevice == <<100>>
SyncJoined == {<<33, 114>>}
ResponseParts == {"rooms", "presence", "account_data", "device_lists", "to_device"}
\* the server-side cap of the long poll, in seconds
LongPollCap == 30
Timeouts == {None, Some(0), Some(2), Some(MaxTimeout)}

VARIABLES
    poll_task,  \* per client: position and locals of the /sync call
    watchers    \* the registered prefix watchers: <<client, tree, prefix>>
watchVars == <<poll_task, watchers>>

\* watch(user_id, device_id): the (tree, prefix) pairs it calls watch_prefix on
watch_prefixes(user_id, device_id) ==
    LET userid_prefix == user_id \o <<255>>
        userdeviceid_prefix == userid_prefix \o device_id \o <<255>>
    IN {<<"todeviceid_events", userdeviceid_prefix>>,
        <<"userroomid_joined", userid_prefix>>,
        <<"userroomid_invitestate", userid_prefix>>,
        <<"userroomid_leftstate", userid_prefix>>,
        <<"userroomid_notificationcount", userid_prefix>>,
        <<"userroomid_highlightcount", userid_prefix>>,
        <<"roomusertype_roomuserdataid", <<255>> \o userid_prefix>>,
        <<"keychangeid_userid", userid_prefix>>,
        <<"userid_lastonetimekeyupdate", user_id>>}
    \cup UNION {{<<"pduid_pdu", to_be_bytes(shortroomid_of(room_id))>>,
                 <<"readreceiptid_readreceipt", room_id \o <<255>>>>,
                 <<"keychangeid_userid", room_id \o <<255>>>>,
                 <<"roomusertype_roomuserdataid", room_id \o <<255>> \o userid_prefix>>}
                : room_id \in SyncJoined}

\* the writes other requests make: a PDU of the joined room and of another
\* room, a to-device event of the device and of another device, a
\* membership, global account data, a key change
WatchWrites ==
    {<<"pduid_pdu", pdu_id(1, 3)>>, <<"pduid_pdu", pdu_id(2, 3)>>,
     <<"todeviceid_events", SyncUser \o <<255>> \o SyncDevice \o <<255>> \o to_be_bytes(3)>>,
     <<"todeviceid_events", SyncUser \o <<255, 101, 255>> \o to_be_bytes(3)>>,
     <<"userroomid_joined", SyncUser \o <<255, 33, 115>>>>,
     <<"roomusertype_roomuserdataid", <<255>> \o SyncUser \o <<255, 109>>>>,
     <<"keychangeid_userid", SyncUser \o <<255>> \o to_be_bytes(3)>>}
woken_by(write, watcher) == watcher[2] = write[1] /\ starts_with(write[2], watcher[3])
is_watched(write) ==
    \E w \in watch_prefixes(SyncUser, SyncDevice) : woken_by(write, <<"any", w[1], w[2]>>)

\* body.timeout.unwrap_or_default(), at most 30 s
long_poll_duration_uncapped(timeout) == IF timeout = None THEN 0 ELSE timeout[1]
long_poll_duration(timeout) ==
    IF timeout = None THEN 0
    ELSE IF timeout[1] > LongPollCap THEN LongPollCap ELSE timeout[1]
\* the long poll is entered for a response without content, unless full_state
response_is_empty(full_state, nonempty) == ~full_state /\ nonempty = {}

IdlePoll == [pc |-> "idle", full_state |-> FALSE, timeout |-> None, nonempty |-> {},
             duration |-> 0, waited |-> 0, polled |-> FALSE, fired |-> FALSE,
             ended |-> "none", written |-> {}]

\* GET /sync: the watcher future is created
poll_watcher(s) ==
    /\ poll_task[s].pc = "idle"
    /\ \E full_state \in BOOLEAN, timeout \in Timeouts :
          poll_task' = [poll_task EXCEPT ![s] =
              [IdlePoll EXCEPT !.pc = "watcher", !.full_state = full_state, !.timeout = timeout]]
    /\ UNCHANGED watchers

\* next_batch is sampled and the response is built
poll_response(s) ==
    LET c == poll_task[s] IN
    /\ c.pc = "watcher"
    /\ \E nonempty \in {{}} \cup {{part} : part \in ResponseParts} :
          poll_task' = [poll_task EXCEPT ![s] =
              IF response_is_empty(c.full_state, nonempty)
              THEN [c EXCEPT !.pc = "timeout", !.nonempty = nonempty,
                             !.duration = long_poll_duration(c.timeout)]
              ELSE [c EXCEPT !.pc = "done", !.nonempty = nonempty]]
    /\ UNCHANGED watchers

\* timeout(duration, watcher).await polls the watcher for the first time: the
\* body of watch() runs and registers its prefixes
poll_wait(s) ==
    LET c == poll_task[s] IN
    /\ c.pc = "timeout"
    /\ IF c.duration = 0
       THEN /\ poll_task' = [poll_task EXCEPT ![s].pc = "done", ![s].polled = TRUE,
                                              ![s].ended = "timeout"]
            /\ UNCHANGED watchers
       ELSE /\ poll_task' = [poll_task EXCEPT ![s].pc = "wait", ![s].polled = TRUE]
            /\ watchers' = watchers \cup
                  {<<s, w[1], w[2]>> : w \in watch_prefixes(SyncUser, SyncDevice)}

\* a second passes
poll_tick(s) ==
    LET c == poll_task[s] IN
    /\ c.pc = "wait" /\ ~c.fired /\ c.waited < c.duration
    /\ poll_task' = [poll_task EXCEPT ![s].waited = c.waited + 1]
    /\ UNCHANGED watchers

\* one of the watchers completed
poll_wake(s) ==
    LET c == poll_task[s] IN
    /\ c.pc = "wait" /\ c.fired
    /\ poll_task' = [poll_task EXCEPT ![s].pc = "done", ![s].ended = "watch"]
    /\ watchers' = {w \in watchers : w[1] # s}

\* the duration elapsed
poll_timeout(s) ==
    LET c == poll_task[s] IN
    /\ c.pc = "wait" /\ ~c.fired /\ c.waited = c.duration
    /\ poll_task' = [poll_task EXCEPT ![s].pc = "done", ![s].ended = "timeout"]
    /\ watchers' = {w \in watchers : w[1] # s}

\* Ok(response)
poll_return(s) ==
    /\ poll_task[s].pc = "done"
    /\ poll_task' = [poll_task EXCEPT ![s] = IdlePoll]
    /\ UNCHANGED watchers

\* another request writes a key: the watchers of a prefix of it complete
watch_write(write) ==
    LET woken == {w \in watchers : woken_by(write, w)} IN
    /\ poll_task' = [s \in PollClients |->
          LET c == poll_task[s] IN
          [c EXCEPT !.fired = c.fired \/ (\E w \in woken : w[1] = s),
                    !.written = IF c.pc \in {"watcher", "timeout", "wait"} /\ is_watched(write)
                                THEN c.written \cup {write} ELSE c.written]]
    /\ watchers' = watchers \ woken

(***************************************************************************)
(* The timeline window of a joined room in /sync (load_joined_room).       *)
(***************************************************************************)
VARIABLES
    joined_room   \* the timeline part of the last joined-room response, or <<>>
windowVars == <<joined_room>>

\* the room /sync is asked about
WindowRoom == <<33, 114>>
\* the since tokens of the calls: none, after the first and the second
\* event, and a recent one
WindowSinces == {0, 3, 4, MaxWindowCount - 1}
\* joined_since_last_sync of load_joined_room: false when nothing changed,
\* else whether the sender was not joined in the state at since
joined_since_last_sync(timeline_pdus, since_is_current, since_sender_joined) ==
    IF timeline_pdus = <<>> /\ since_is_current THEN FALSE ELSE ~since_sender_joined

\* an event is appended to a room's timeline
window_append(room_id) ==
    /\ joined_room = <<>>
    /\ count_now < MaxWindowCount
    /\ room_id # WindowRoom =>
          Cardinality(room_events(pduid_pdu, room_id)) < MaxOtherRoomEvents
    /\ global' = next_count(global).tree
    /\ pduid_pdu' = tree_insert(pduid_pdu,
          pdu_id(shortroomid_of(room_id), next_count(global).ret[1]), <<>>)
    /\ UNCHANGED joined_room

\* load_joined_room: the timeline of the room in the response
window_load(sincecount, since_is_current, since_sender_joined) ==
    LET loaded == load_timeline(pduid_pdu, shortroomid_of(WindowRoom), sincecount, TimelineLimit)
        timeline_pdus == loaded[1]
        limited == loaded[2]
        joined == joined_since_last_sync(timeline_pdus, since_is_current, since_sender_joined)
    IN
    /\ joined_room = <<>>
    /\ joined_room' = <<[sincecount |-> sincecount,
                         log |-> room_events(pduid_pdu, WindowRoom),
                         joined_since_last_sync |-> joined,
                         events |-> timeline_pdus,
                         limited |-> limited \/ joined]>>
    /\ UNCHANGED <<global, pduid_pdu>>

\* the response is sent
window_return ==
    /\ joined_room # <<>>
    /\ joined_room' = <<>>
    /\ UNCHANGED <<global, pduid_pdu>>

(***************************************************************************)
(* What /sync writes: the to-device queue of the device and the index of   *)
(* (room, token) -> shortstatehash (api/client_server/sync.rs).            *)
(***************************************************************************)
DeviceClients == {"s1"}
\* the devices of "@u": "d", which syncs, and "e"
Devices == {SyncDevice, <<101>>}
\* the shortstatehash of the current state of the joined room
CurrentShortstatehash == 1

VARIABLES
    todeviceid_events,             \* user 0xFF device 0xFF count -> event
    roomsynctoken_shortstatehash,  \* shortroomid, token -> shortstatehash
    device_task,                   \* per client: position and locals of the /sync call
    device_last,                   \* the last response the device received, or <<>>
    device_log                     \* what happened to the to-device events so far
deviceVars == <<todeviceid_events, roomsynctoken_shortstatehash, device_task, device_last,
                device_log>>
\* the data /sync works on that outlives the call
persisted == <<global, todeviceid_events, roomsynctoken_shortstatehash>>

todevice_prefix(user_id, device_id) == user_id \o <<255>> \o device_id \o <<255>>
todevice_count(key) == from_be_bytes(SubSeq(key, Len(key) - U64Len + 1, Len(key)))
queued_counts(tree, user_id, device_id) ==
    {todevice_count(key) : key \in {k \in DOMAIN tree : starts_with(k, todevice_prefix(user_id, device_id))}}
\* get_to_device_events: the events queued for the device, in key order
get_to_device_events(tree, user_id, device_id) ==
    LET found == scan_prefix(tree, todevice_prefix(user_id, device_id))
    IN [j \in 1..Len(found) |-> todevice_count(found[j][1])]
\* remove_to_device_events: the events of the device with count <= until go
remove_to_device_events_all(tree, user_id, device_id, until) ==
    [key \in {k \in DOMAIN tree : ~starts_with(k, todevice_prefix(user_id, device_id))} |-> tree[key]]
remove_to_device_events(tree, user_id, device_id, until) ==
    [key \in {k \in DOMAIN tree :
                 ~(starts_with(k, todevice_prefix(user_id, device_id)) /\ todevice_count(k) <= until)}
        |-> tree[key]]
\* associate_token_shortstatehash
token_key(room_id, token) == to_be_bytes(shortroomid_of(room_id)) \o to_be_bytes(token)
associate_token_shortstatehash(tree, room_id, token, shortstatehash) ==
    tree_insert(tree, token_key(room_id, token), to_be_bytes(shortstatehash))

IdleDevice == [pc |-> "idle", since |-> None, sincecount |-> 0, next_batch |-> 0,
               rooms |-> <<>>, events |-> <<>>, sent_before_read |-> {}]

\* a to-device event is queued for a device of the user
add_to_device_event(device_id) ==
    /\ count_now < MaxDeviceCount
    /\ global' = next_count(global).tree
    /\ todeviceid_events' = tree_insert(todeviceid_events,
          todevice_prefix(SyncUser, device_id) \o to_be_bytes(next_count(global).ret[1]), <<123>>)
    /\ device_log' = [device_log EXCEPT !.sent = @ \cup {<<device_id, next_count(global).ret[1]>>}]
    /\ UNCHANGED <<roomsynctoken_shortstatehash, device_task, device_last>>

\* the since tokens of a device that acknowledges every response it got
device_tokens ==
    IF device_last = <<>> THEN {None} ELSE {Some(device_last[1].next_batch)}

\* GET /sync: next_batch is sampled, since is parsed
device_sync(s) ==
    /\ device_task[s].pc = "idle"
    /\ \E token \in device_tokens :
          device_task' = [device_task EXCEPT ![s] =
              [IdleDevice EXCEPT !.pc = "rooms", !.since = token, !.sincecount = since_of(token),
                                 !.next_batch = current_count(global)[1],
                                 !.rooms = sorted_keys(SyncJoined)]]
    /\ UNCHANGED <<global, todeviceid_events, roomsynctoken_shortstatehash, device_last, device_log>>

\* load_joined_room: the state after this sync is saved under next_batch
device_joined_room(s) ==
    LET c == device_task[s] IN
    /\ c.pc = "rooms"
    /\ roomsynctoken_shortstatehash' = associate_token_shortstatehash(
          roomsynctoken_shortstatehash, c.rooms[1], c.next_batch, CurrentShortstatehash)
    /\ device_task' = [device_task EXCEPT ![s].rooms = Tail(c.rooms),
          ![s].pc = IF Tail(c.rooms) = <<>> THEN "remove" ELSE "rooms"]
    /\ UNCHANGED <<global, todeviceid_events, device_last, device_log>>

\* the count up to which the call removes to-device events: since
removed_until_next_batch(c) == c.next_batch
removed_until(c) == c.sincecount
\* the to-device events the device received last time are removed
device_remove(s) ==
    LET c == device_task[s] IN
    /\ c.pc = "remove"
    /\ todeviceid_events' =
          remove_to_device_events(todeviceid_events, SyncUser, SyncDevice, removed_until(c))
    /\ device_log' = [device_log EXCEPT !.removed = @ \cup
          (queued_counts(todeviceid_events, SyncUser, SyncDevice)
              \ queued_counts(todeviceid_events', SyncUser, SyncDevice))]
    /\ device_task' = [device_task EXCEPT ![s].pc = "response"]
    /\ UNCHANGED <<global, roomsynctoken_shortstatehash, device_last>>

\* the response is built with the to-device events of the device
device_response(s) ==
    LET c == device_task[s]
        events == get_to_device_events(todeviceid_events, SyncUser, SyncDevice)
    IN
    /\ c.pc = "response"
    /\ device_task' = [device_task EXCEPT ![s].events = events,
          ![s].sent_before_read = {e[2] : e \in {x \in device_log.sent : x[1] = SyncDevice}},
          ![s].pc = IF events = <<>> THEN "wait" ELSE "return"]
    /\ UNCHANGED <<global, todeviceid_events, roomsynctoken_shortstatehash, device_last, device_log>>

\* the long poll is over, by the watcher or by the timeout
device_wait(s) ==
    /\ device_task[s].pc = "wait"
    /\ device_task' = [device_task EXCEPT ![s].pc = "return"]
    /\ UNCHANGED <<global, todeviceid_events, roomsynctoken_shortstatehash, device_last, device_log>>

\* the client disconnects during the long poll: the handler is dropped
device_disconnect(s) ==
    /\ device_task[s].pc = "wait"
    /\ device_task' = [device_task EXCEPT ![s] = IdleDevice]
    /\ device_log' = [device_log EXCEPT !.disconnected = TRUE]
    /\ UNCHANGED <<global, todeviceid_events, roomsynctoken_shortstatehash, device_last>>

\* Ok(response): the device receives it
device_return(s) ==
    LET c == device_task[s] IN
    /\ c.pc = "return"
    /\ device_last' = <<[since |-> c.sincecount, next_batch |-> to_string(c.next_batch),
                         events |-> c.events, sent_before_read |-> c.sent_before_read]>>
    /\ device_log' = [device_log EXCEPT !.returned = @ \cup seq_range(c.events)]
    /\ device_task' = [device_task EXCEPT ![s] = IdleDevice]
    /\ UNCHANGED <<global, todeviceid_events, roomsynctoken_shortstatehash>>

device_step(s) ==
    \/ device_sync(s)
    \/ device_joined_room(s)
    \/ device_remove(s)
    \/ device_response(s)
    \/ device_wait(s)
    \/ device_disconnect(s)
    \/ device_return(s)

(***************************************************************************)
(* The state section of a joined room in /sync and the lazy loading of     *)
(* member events (load_joined_room, service/rooms/lazy_loading/mod.rs).    *)
(***************************************************************************)
LazyRoom == <<33, 114>>
UserA == <<64, 97>>
UserB == <<64, 98>>
RoomMember == "m.room.member"
RoomName == "m.room.name"
RoomMessage == "m.room.message"
LazyLoadOptions == {[lazy_load_enabled |-> FALSE, lazy_load_send_redundant |-> FALSE],
                    [lazy_load_enabled |-> TRUE, lazy_load_send_redundant |-> FALSE],
                    [lazy_load_enabled |-> TRUE, lazy_load_send_redundant |-> TRUE]}
\* the device asks for the changes, never for the full state
LazyFullState == {FALSE}
\* cfg!(feature = "element_hacks"): what a build can have
ElementHacks == BOOLEAN

VARIABLES
    shortstatehash_state,  \* shortstatehash -> the room state: (type, state key) -> event
    lazy_load_waiting,     \* (user, device, room, count) -> users, in memory
    lazyloadedids,         \* (user, device, room, user whose member event was sent)
    lazy_filter,           \* the lazy_load_options of the filter of the device
    lazy_tokens,           \* the next_batch values the device has received
    lazy_last,             \* the response being returned, or <<>>
    lazy_sent,             \* the member events in the last response received
    lazy_confirmed         \* the member events sent and then acknowledged by since
lazyVars == <<shortstatehash_state, lazy_load_waiting, lazyloadedids, lazy_filter,
              lazy_tokens, lazy_last, lazy_sent, lazy_confirmed>>

member_key(user_id) == <<RoomMember, user_id>>
\* get_pdu
pdu_of(count) == pduid_pdu[pdu_id(shortroomid_of(LazyRoom), count)]
\* get_room_shortstatehash
current_shortstatehash == Len(shortstatehash_state)
state_full_ids(shortstatehash) == shortstatehash_state[shortstatehash]
state_get(shortstatehash, key) ==
    IF key \in DOMAIN state_full_ids(shortstatehash)
    THEN Some(state_full_ids(shortstatehash)[key]) ELSE None
membership_at(shortstatehash, user_id) ==
    IF state_get(shortstatehash, member_key(user_id)) = None THEN "none"
    ELSE pdu_of(state_get(shortstatehash, member_key(user_id))[1]).membership
is_joined(user_id) == membership_at(current_shortstatehash, user_id) = "join"
is_invited(user_id) == membership_at(current_shortstatehash, user_id) = "invite"
get_token_shortstatehash(tree, room_id, token) ==
    IF token_key(room_id, token) \in DOMAIN tree
    THEN Some(from_be_bytes(tree[token_key(room_id, token)])) ELSE None

\* lazy_loading/mod.rs
lazy_key(ll_user) == <<SyncUser, SyncDevice, LazyRoom, ll_user>>
lazy_load_was_sent_before(ids, ll_user) == lazy_key(ll_user) \in ids
lazy_load_mark_sent(waiting, lazy_load, count) ==
    [key \in DOMAIN waiting \cup {lazy_key(count)} |->
        IF key = lazy_key(count) THEN lazy_load ELSE waiting[key]]
lazy_load_confirm_delivery_forgetting(waiting, ids, since) ==
    [waiting |-> [key \in DOMAIN waiting \ {lazy_key(since)} |-> waiting[key]], ids |-> ids]
lazy_load_confirm_delivery(waiting, ids, since) ==
    IF lazy_key(since) \in DOMAIN waiting
    THEN [waiting |-> [key \in DOMAIN waiting \ {lazy_key(since)} |-> waiting[key]],
          ids |-> ids \cup {lazy_key(ll_user) : ll_user \in waiting[lazy_key(since)]}]
    ELSE [waiting |-> waiting, ids |-> ids]
lazy_load_reset(ids) == {key \in ids : ~(key[1] = SyncUser /\ key[2] = SyncDevice /\ key[3] = LazyRoom)}

timeline_users_of(timeline_pdus) == {pdu_of(timeline_pdus[j]).sender : j \in DOMAIN timeline_pdus}
events_of(state, keys) == {state[key] : key \in keys}
member_users(state, events) ==
    {key[2] : key \in {k \in DOMAIN state : k[1] = RoomMember /\ state[k] \in events}}

\* the state section of an initial sync of the room
initial_state_keys_all_senders(current, timeline_users, full_state, element_hacks) ==
    {key \in DOMAIN current :
        \/ key[1] # RoomMember
        \/ pdu_of(current[key]).sender \in timeline_users}
initial_state_keys(current, timeline_users, full_state, element_hacks) ==
    {key \in DOMAIN current :
        \/ key[1] # RoomMember
        \/ ~lazy_filter.lazy_load_enabled
        \/ full_state
        \/ key[2] \in timeline_users
        \/ (element_hacks /\ key[2] = SyncUser)}
\* the state events that differ from the state at since
delta_state_keys_unchanged(current, since_shortstatehash, full_state) ==
    IF since_shortstatehash = current_shortstatehash THEN {}
    ELSE {key \in DOMAIN current :
             full_state \/ state_get(since_shortstatehash, key) = Some(current[key])}
delta_state_keys(current, since_shortstatehash, full_state) ==
    IF since_shortstatehash = current_shortstatehash THEN {}
    ELSE {key \in DOMAIN current :
             full_state \/ state_get(since_shortstatehash, key) # Some(current[key])}
\* the senders of the timeline whose member event is added
lazy_loaded_senders(current, timeline_users, lazy_loaded, ids) ==
    {user_id \in timeline_users \ lazy_loaded :
        /\ ~lazy_load_was_sent_before(ids, user_id) \/ lazy_filter.lazy_load_send_redundant
        /\ member_key(user_id) \in DOMAIN current}

\* load_joined_room: the response for the room and what the call writes
load_joined_room(since, next_batch, full_state, element_hacks) ==
    LET loaded == load_timeline(pduid_pdu, shortroomid_of(LazyRoom), since, TimelineLimit)
        timeline_pdus == loaded[1]
        timeline_users == timeline_users_of(timeline_pdus)
        confirmed == lazy_load_confirm_delivery(lazy_load_waiting, lazyloadedids, since)
        current == state_full_ids(current_shortstatehash)
        since_shortstatehash == get_token_shortstatehash(roomsynctoken_shortstatehash, LazyRoom, since)
        no_change == timeline_pdus = <<>> /\ since_shortstatehash = Some(current_shortstatehash)
        joined == IF since_shortstatehash = None THEN TRUE
                  ELSE membership_at(since_shortstatehash[1], SyncUser) # "join"
        initial == since_shortstatehash = None \/ joined
        initial_events == events_of(current,
                                    initial_state_keys(current, timeline_users, full_state, element_hacks))
        initial_loaded == member_users(current, initial_events)
        delta == events_of(current, delta_state_keys(current, since_shortstatehash[1], full_state))
        delta_loaded == member_users(current, delta)
        senders == lazy_loaded_senders(current, timeline_users, delta_loaded, confirmed.ids)
        branch == IF no_change THEN "none" ELSE IF initial THEN "initial" ELSE "incremental"
        state_events == CASE branch = "none" -> {}
                          [] branch = "initial" -> initial_events
                          [] OTHER -> delta \cup events_of(current, {member_key(u) : u \in senders})
        ids == CASE branch = "none" -> confirmed.ids
                 [] branch = "initial" -> lazy_load_reset(confirmed.ids)
                 [] OTHER -> confirmed.ids
        waiting == CASE branch = "none" -> confirmed.waiting
                     [] branch = "initial" ->
                           lazy_load_mark_sent(confirmed.waiting, initial_loaded, next_batch)
                     [] OTHER ->
                           lazy_load_mark_sent(confirmed.waiting, delta_loaded \cup senders, next_batch)
    IN [since |-> since, next_batch |-> next_batch, full_state |-> full_state, branch |-> branch,
        timeline |-> timeline_pdus, limited |-> loaded[2] \/ (branch # "none" /\ joined),
        state_events |-> state_events,
        since_shortstatehash |-> since_shortstatehash, shortstatehash |-> current_shortstatehash,
        waiting |-> waiting, ids |-> ids,
        index |-> associate_token_shortstatehash(roomsynctoken_shortstatehash, LazyRoom,
                                                 next_batch, current_shortstatehash)]

\* the events the users of the room send: messages of the joined users, a
\* new room name, the join of the syncing user, the invitation of "@b"
LazyEvents ==
    {[sender |-> u, kind |-> RoomMessage, state_key |-> None, membership |-> ""] :
        u \in {v \in {SyncUser, UserA} : is_joined(v)}}
    \cup {[sender |-> UserA, kind |-> RoomName, state_key |-> Some(<<>>), membership |-> ""]}
    \cup {[sender |-> u, kind |-> RoomMember, state_key |-> Some(u), membership |-> "join"] :
             u \in {v \in {SyncUser} : ~is_joined(v)}}
    \cup {[sender |-> UserA, kind |-> RoomMember, state_key |-> Some(u), membership |-> "invite"] :
             u \in {v \in {UserB} : ~is_joined(v) /\ ~is_invited(v)}}

\* an event is appended to the room; a state event makes a new room state
lazy_append(pdu) ==
    LET count == next_count(global).ret[1]
        current == state_full_ids(current_shortstatehash)
        key == <<pdu.kind, pdu.state_key[1]>>
    IN
    /\ lazy_last = <<>>
    /\ count_now < MaxLazyCount
    /\ global' = next_count(global).tree
    /\ pduid_pdu' = tree_insert(pduid_pdu, pdu_id(shortroomid_of(LazyRoom), count), pdu)
    /\ shortstatehash_state' =
          IF pdu.state_key = None THEN shortstatehash_state
          ELSE Append(shortstatehash_state,
                      [k \in DOMAIN current \cup {key} |-> IF k = key THEN count ELSE current[k]])
    /\ UNCHANGED <<roomsynctoken_shortstatehash, lazy_load_waiting, lazyloadedids,
                   lazy_filter, lazy_tokens, lazy_last, lazy_sent, lazy_confirmed, deviceVars>>

\* the since tokens of the device: none, or the next_batch it received last
lazy_since_tokens ==
    IF lazy_sent = <<>> THEN {None} ELSE {None, Some(to_string(lazy_sent[1].next_batch))}

\* GET /sync of the device; the room is in the response when the user has
\* joined it
lazy_sync(token, full_state, element_hacks) ==
    LET next_batch == current_count(global)[1]
        since == since_of(token)
        current == state_full_ids(current_shortstatehash)
        acknowledged == IF lazy_sent # <<>> /\ lazy_sent[1].next_batch = since
                        THEN lazy_sent[1].members ELSE {}
    IN
    /\ lazy_last = <<>>
    /\ \E room \in {load_joined_room(since, next_batch, full_state, element_hacks)} :
          /\ IF is_joined(SyncUser)
             THEN /\ lazy_load_waiting' = room.waiting
                  /\ lazyloadedids' = room.ids
                  /\ roomsynctoken_shortstatehash' = room.index
                  /\ lazy_last' = <<[since |-> since, next_batch |-> next_batch,
                                     full_state |-> full_state, branch |-> room.branch,
                                     timeline |-> room.timeline, limited |-> room.limited,
                                     state_events |-> room.state_events,
                                     since_shortstatehash |-> room.since_shortstatehash,
                                     shortstatehash |-> room.shortstatehash,
                                     confirmed_before |-> lazy_confirmed]>>
                  /\ lazy_sent' = <<[next_batch |-> next_batch,
                                     members |-> {<<u, current[member_key(u)]>> :
                                                     u \in member_users(current, room.state_events)}]>>
             ELSE /\ lazy_last' = <<[branch |-> "absent", since |-> since, next_batch |-> next_batch]>>
                  /\ lazy_sent' = <<[next_batch |-> next_batch, members |-> {}]>>
                  /\ UNCHANGED <<lazy_load_waiting, lazyloadedids, roomsynctoken_shortstatehash>>
    /\ todeviceid_events' =
          remove_to_device_events(todeviceid_events, SyncUser, SyncDevice, since)
    /\ lazy_tokens' = lazy_tokens \cup {next_batch}
    /\ lazy_confirmed' = lazy_confirmed \cup acknowledged
    /\ UNCHANGED <<global, pduid_pdu, shortstatehash_state, lazy_filter,
                   device_task, device_last, device_log>>

\* the device has the response
lazy_return ==
    /\ lazy_last # <<>>
    /\ lazy_last' = <<>>
    /\ UNCHANGED <<global, pduid_pdu, roomsynctoken_shortstatehash, shortstatehash_state,
                   lazy_load_waiting, lazyloadedids, lazy_filter, lazy_tokens,
                   lazy_sent, lazy_confirmed, todeviceid_events, device_task, device_last,
                   device_log>>

\* a to-device event is queued for the device between two calls, once
lazy_to_device ==
    /\ lazy_last = <<>>
    /\ device_log.sent = {}
    /\ add_to_device_event(SyncDevice)
    /\ UNCHANGED <<pduid_pdu, lazyVars>>

(***************************************************************************)
(* The heroes of a room in /sync (calculate_counts in load_joined_room).   *)
(***************************************************************************)
\* the users of the room besides the syncing user, in the order they appear
HeroUsers == <<<<64, 97>>, <<64, 98>>, <<64, 99>>, <<64, 100>>, <<64, 101>>>>
HeroLimit == 5

VARIABLES
    hero_pdus,    \* all_pdus: the events of the room, oldest first
    hero_result   \* the result of calculate_counts, or <<>>
heroVars == <<hero_pdus, hero_result>>

member_pdu(user_id, membership) ==
    [kind |-> RoomMember, state_key |-> Some(user_id), membership |-> membership]
\* the membership of the last member event of the user: what state_cache has
RECURSIVE membership_in(_, _)
membership_in(pdus, user_id) ==
    IF pdus = <<>> THEN "none"
    ELSE LET pdu == pdus[Len(pdus)] IN
         IF pdu.kind = RoomMember /\ pdu.state_key = Some(user_id) THEN pdu.membership
         ELSE membership_in(SubSeq(pdus, 1, Len(pdus) - 1), user_id)
room_users(pdus) == {pdus[j].state_key[1] : j \in {i \in DOMAIN pdus : pdus[i].kind = RoomMember}}
room_joined_count(pdus) == Cardinality({u \in room_users(pdus) : membership_in(pdus, u) = "join"})
room_invited_count(pdus) == Cardinality({u \in room_users(pdus) : membership_in(pdus, u) = "invite"})

\* the loop over the member events: a user who was and still is joined or
\* invited is pushed unless already there or the sender
RECURSIVE heroes_of(_, _, _)
heroes_of(pdus, all, heroes) ==
    IF pdus = <<>> THEN heroes
    ELSE LET pdu == Head(pdus)
             hero == pdu.state_key[1]
             possible == /\ pdu.kind = RoomMember
                         /\ pdu.state_key # None
                         /\ pdu.membership \in {"join", "invite"}
                         /\ membership_in(all, hero) \in {"join", "invite"}
         IN IF possible /\ hero \notin seq_range(heroes) /\ hero # SyncUser
            THEN heroes_of(Tail(pdus), all, Append(heroes, hero))
            ELSE heroes_of(Tail(pdus), all, heroes)
\* whether heroes are calculated for these member counts
few_members_always(joined_member_count, invited_member_count) == TRUE
few_members(joined_member_count, invited_member_count) ==
    joined_member_count + invited_member_count <= HeroLimit
calculate_counts(pdus) ==
    LET joined_member_count == room_joined_count(pdus)
        invited_member_count == room_invited_count(pdus)
    IN [joined_member_count |-> Some(joined_member_count),
        invited_member_count |-> Some(invited_member_count),
        heroes |-> IF few_members(joined_member_count, invited_member_count)
                   THEN heroes_of(pdus, pdus, <<>>) ELSE <<>>]

\* the next user of HeroUsers joins or is invited
hero_arrive(membership) ==
    LET arrived == Cardinality(room_users(hero_pdus) \ {SyncUser}) IN
    /\ hero_result = <<>>
    /\ Len(hero_pdus) < MaxHeroEvents
    /\ arrived < Len(HeroUsers)
    /\ hero_pdus' = Append(hero_pdus, member_pdu(HeroUsers[arrived + 1], membership))
    /\ UNCHANGED hero_result
\* the first user of HeroUsers changes its membership
hero_change(membership) ==
    LET now == membership_in(hero_pdus, HeroUsers[1]) IN
    /\ hero_result = <<>>
    /\ Len(hero_pdus) < MaxHeroEvents
    /\ \/ now = "join" /\ membership \in {"leave", "join"}
       \/ now = "invite" /\ membership \in {"join", "leave"}
       \/ now = "leave" /\ membership \in {"join", "invite"}
    /\ hero_pdus' = Append(hero_pdus, member_pdu(HeroUsers[1], membership))
    /\ UNCHANGED hero_result
\* the syncing user sends a message
hero_message ==
    /\ hero_result = <<>>
    /\ Len(hero_pdus) < MaxHeroEvents
    /\ hero_pdus[Len(hero_pdus)].kind = RoomMember
    /\ hero_pdus' = Append(hero_pdus, [kind |-> RoomMessage, state_key |-> None, membership |-> ""])
    /\ UNCHANGED hero_result
\* /sync of the room calculates the summary
hero_calculate ==
    /\ hero_result = <<>>
    /\ hero_result' = <<calculate_counts(hero_pdus)>>
    /\ UNCHANGED hero_pdus
\* the response is sent
hero_return ==
    /\ hero_result # <<>>
    /\ hero_result' = <<>>
    /\ UNCHANGED hero_pdus

(***************************************************************************)
(* Room upgrade (api/client_server/room.rs, upgrade_room_route) with the   *)
(* state of the rooms, their events and the local aliases.                 *)
(***************************************************************************)
UpgradeTasks == {"v1", "v2"}
\* "!r" and "!s" exist; the replacement rooms are "!t", "!u", ..
UpgradeRooms == {<<33, 114>>, <<33, 115>>}
\* "#a" and "#b"
LocalAliases == {<<35, 97>>, <<35, 98>>}
\* the room versions a client asks for: 5 is unstable
NewVersions == {5, 11}

TRANSFERABLE_STATE_EVENTS ==
    <<"m.room.server_acl", "m.room.encryption", "m.room.name", "m.room.avatar",
      "m.room.topic", "m.room.guest_access", "m.room.history_visibility",
      "m.room.join_rules", "m.room.power_levels">>
StateEventTypes ==
    {"m.room.create", "m.room.member", "m.room.tombstone"}
        \cup {TRANSFERABLE_STATE_EVENTS[i] : i \in DOMAIN TRANSFERABLE_STATE_EVENTS}

VARIABLES
    room_pdus,        \* room id -> the events appended to the room, in order
    alias_roomid,     \* local alias -> room id
    upgrade_task,     \* per request: position, locals, the steps it has done
    upgrade_count     \* replacement room ids generated so far
upgradeVars == <<room_pdus, alias_roomid, upgrade_task, upgrade_count>>

IdleUpgrade ==
    [pc |-> "idle", room_id |-> <<>>, replacement_room |-> <<>>, new_version |-> 0,
     tombstone_event_id |-> <<>>, index |-> 1, power_levels |-> <<>>,
     aliases_before |-> {}, steps |-> <<>>, result |-> <<>>]

\* RoomId::new: a room id that was never used
new_room_id(n) == <<33, 115 + n>>

stable_room_versions == {6, 7, 8, 9, 10, 11}
unstable_room_versions == {2, 3, 4, 5}
supported_room_versions(allow_unstable_room_versions) ==
    stable_room_versions
        \cup (IF allow_unstable_room_versions THEN unstable_room_versions ELSE {})

\* the events of a room, or none when nothing was appended to it
pdus_of(pdus, room_id) == IF room_id \in DOMAIN pdus THEN pdus[room_id] ELSE <<>>
event_id_of(room_id, n) == <<room_id, n>>
\* the current state event (event_type, ""), or the member event of the
\* sender: the last event of that type appended to the room
room_state_get(pdus, room_id, event_type) ==
    LET q == pdus_of(pdus, room_id)
        at == {i \in DOMAIN q : q[i].event_type = event_type}
    IN  IF at = {} THEN None
        ELSE LET i == CHOOSE i \in at : \A j \in at : j <= i
             IN  Some([event_id |-> event_id_of(room_id, i), content |-> q[i].content])
\* build_and_append_pdu returning Ok(event id): the event is the last one of
\* the room and its state event
append_pdu(pdus, room_id, event_type, content) ==
    (room_id :> Append(pdus_of(pdus, room_id),
                       [event_type |-> event_type, content |-> content])) @@ pdus
appended_event_id(pdus, room_id) == event_id_of(room_id, Len(pdus_of(pdus, room_id)) + 1)

\* the state mutex of a room: entry(room_id).or_default()
state_mutex_of(room_id) ==
    IF room_id \in DOMAIN roomid_mutex_state THEN roomid_mutex_state[room_id] ELSE Free
state_mutex_set(room_id, holder) == (room_id :> holder) @@ roomid_mutex_state

resolve_local_alias(aliases, alias) ==
    IF alias \in DOMAIN aliases THEN Some(aliases[alias]) ELSE None
local_aliases_for_room(aliases, room_id) == {a \in DOMAIN aliases : aliases[a] = room_id}
set_alias(aliases, alias, room_id) == (alias :> room_id) @@ aliases
\* set_alias for every alias of the old room
move_aliases(aliases, room_id, replacement_room) ==
    [a \in DOMAIN aliases |->
        IF a \in local_aliases_for_room(aliases, room_id) THEN replacement_room
        ELSE aliases[a]]

\* the content of the m.room.create event of the replacement room
create_event_content_old_version(old_content, sender_user, new_version, predecessor) ==
    [creator |-> IF new_version \in 1..10 THEN Some(sender_user) ELSE None,
     room_version |-> old_content.room_version,
     predecessor |-> predecessor]
create_event_content(old_content, sender_user, new_version, predecessor) ==
    [creator |-> IF new_version \in 1..10 THEN Some(sender_user) ELSE None,
     room_version |-> new_version,
     predecessor |-> predecessor]

max(a, b) == IF a >= b THEN a ELSE b
\* events_default and invite become the greater of 50 and users_default + 1
raised_power_levels(content) ==
    LET new_level == max(50, content.users_default + 1)
    IN  [content EXCEPT !.events_default = new_level, !.invite = new_level]

\* the first transferable state event the old room has, from position index
next_transferable(pdus, room_id, index) ==
    LET present == {i \in index..Len(TRANSFERABLE_STATE_EVENTS) :
                       room_state_get(pdus, room_id, TRANSFERABLE_STATE_EVENTS[i]) # None}
    IN  IF present = {} THEN None
        ELSE Some(CHOOSE i \in present : \A j \in present : i <= j)

did(c, step) == [c EXCEPT !.steps = Append(c.steps, step)]
\* the route returns: the guard it holds, if any, is dropped
upgrade_done(t, c, result) ==
    upgrade_task' = [upgrade_task EXCEPT ![t] = [c EXCEPT !.pc = "done", !.result = result]]
unlocked(t) ==
    [r \in DOMAIN roomid_mutex_state |->
        IF roomid_mutex_state[r] = t THEN Free ELSE roomid_mutex_state[r]]

\* POST /rooms/{roomId}/upgrade: the version is checked, the replacement room
\* id is made and its short id created
upgrade_start(t, room_id, new_version, allow_unstable_room_versions) ==
    LET c == upgrade_task[t]
        replacement_room == new_room_id(upgrade_count + 1) IN
    /\ c.pc = "idle"
    /\ IF new_version \notin supported_room_versions(allow_unstable_room_versions)
       THEN /\ upgrade_done(t, c, Err)
            /\ UNCHANGED <<global, roomid_shortroomid, upgrade_count>>
       ELSE /\ global' = next_count(global).tree
            /\ roomid_shortroomid' =
                  tree_insert(roomid_shortroomid, replacement_room,
                              to_be_bytes(next_count(global).ret[1]))
            /\ upgrade_count' = upgrade_count + 1
            /\ upgrade_task' = [upgrade_task EXCEPT ![t] =
                  [IdleUpgrade EXCEPT !.pc = "lock", !.room_id = room_id,
                      !.replacement_room = replacement_room, !.new_version = new_version,
                      !.aliases_before = local_aliases_for_room(alias_roomid, room_id)]]
    /\ UNCHANGED <<roomid_mutex_state, room_pdus, alias_roomid>>

\* the state mutex of the old room
upgrade_lock(t) ==
    LET c == upgrade_task[t] IN
    /\ c.pc = "lock"
    /\ state_mutex_of(c.room_id) = Free
    /\ roomid_mutex_state' = state_mutex_set(c.room_id, t)
    /\ upgrade_task' = [upgrade_task EXCEPT ![t].pc = "tombstone"]
    /\ UNCHANGED <<global, roomid_shortroomid, room_pdus, alias_roomid, upgrade_count>>

\* m.room.tombstone in the old room, then drop(state_lock)
upgrade_tombstone(t) ==
    LET c == upgrade_task[t] IN
    /\ c.pc = "tombstone"
    /\ room_pdus' = append_pdu(room_pdus, c.room_id, "m.room.tombstone",
                               [replacement_room |-> c.replacement_room])
    /\ upgrade_task' = [upgrade_task EXCEPT ![t] =
          [did(c, "m.room.tombstone") EXCEPT !.pc = "relock",
              !.tombstone_event_id = appended_event_id(room_pdus, c.room_id)]]
    /\ roomid_mutex_state' = unlocked(t)
    /\ UNCHANGED <<global, roomid_shortroomid, alias_roomid, upgrade_count>>

\* the state mutex of the replacement room
upgrade_relock(t) ==
    LET c == upgrade_task[t] IN
    /\ c.pc = "relock"
    /\ state_mutex_of(c.replacement_room) = Free
    /\ roomid_mutex_state' = state_mutex_set(c.replacement_room, t)
    /\ upgrade_task' = [upgrade_task EXCEPT ![t].pc = "create"]
    /\ UNCHANGED <<global, roomid_shortroomid, room_pdus, alias_roomid, upgrade_count>>

\* m.room.create of the replacement room from the create event of the old
\* room, with the tombstone as predecessor
upgrade_create(t) ==
    LET c == upgrade_task[t]
        old == room_state_get(room_pdus, c.room_id, "m.room.create") IN
    /\ c.pc = "create"
    /\ IF old = None
       THEN /\ upgrade_done(t, c, Err)
            /\ roomid_mutex_state' = unlocked(t)
            /\ UNCHANGED room_pdus
       ELSE /\ room_pdus' = append_pdu(room_pdus, c.replacement_room, "m.room.create",
                  create_event_content(old[1].content, SyncUser, c.new_version,
                      Some([room_id |-> c.room_id, event_id |-> c.tombstone_event_id])))
            /\ upgrade_task' = [upgrade_task EXCEPT ![t] =
                  [did(c, "m.room.create") EXCEPT !.pc = "join"]]
            /\ UNCHANGED roomid_mutex_state
    /\ UNCHANGED <<global, roomid_shortroomid, alias_roomid, upgrade_count>>

\* the sender joins the replacement room
upgrade_join(t) ==
    LET c == upgrade_task[t] IN
    /\ c.pc = "join"
    /\ room_pdus' = append_pdu(room_pdus, c.replacement_room, "m.room.member",
                               [membership |-> "join"])
    /\ upgrade_task' = [upgrade_task EXCEPT ![t] =
          [did(c, "m.room.member") EXCEPT !.pc = "transfer"]]
    /\ UNCHANGED <<global, roomid_shortroomid, roomid_mutex_state, alias_roomid, upgrade_count>>

\* the next transferable state event the old room has is copied; the loop
\* ends after the last one
upgrade_transfer(t) ==
    LET c == upgrade_task[t]
        next == next_transferable(room_pdus, c.room_id, c.index) IN
    /\ c.pc = "transfer"
    /\ IF next = None
       THEN /\ upgrade_task' = [upgrade_task EXCEPT ![t].pc = "aliases"]
            /\ UNCHANGED room_pdus
       ELSE LET event_type == TRANSFERABLE_STATE_EVENTS[next[1]] IN
            /\ room_pdus' = append_pdu(room_pdus, c.replacement_room, event_type,
                  room_state_get(room_pdus, c.room_id, event_type)[1].content)
            /\ upgrade_task' = [upgrade_task EXCEPT ![t] =
                  [did(c, event_type) EXCEPT !.index = next[1] + 1]]
    /\ UNCHANGED <<global, roomid_shortroomid, roomid_mutex_state, alias_roomid, upgrade_count>>

\* the local aliases of the old room are set to the replacement room and the
\* power levels of the old room are read
upgrade_aliases(t) ==
    LET c == upgrade_task[t]
        power_levels == room_state_get(room_pdus, c.room_id, "m.room.power_levels") IN
    /\ c.pc = "aliases"
    /\ alias_roomid' = move_aliases(alias_roomid, c.room_id, c.replacement_room)
    /\ IF power_levels = None
       THEN /\ upgrade_done(t, did(c, "aliases"), Err)
            /\ roomid_mutex_state' = unlocked(t)
       ELSE /\ upgrade_task' = [upgrade_task EXCEPT ![t] =
                  [did(c, "aliases") EXCEPT !.pc = "power_levels",
                      !.power_levels = Some(raised_power_levels(power_levels[1].content))]]
            /\ UNCHANGED roomid_mutex_state
    /\ UNCHANGED <<global, roomid_shortroomid, room_pdus, upgrade_count>>

\* the raised power levels are appended to the old room, drop(state_lock),
\* Ok(replacement_room)
upgrade_power_levels(t) ==
    LET c == upgrade_task[t] IN
    /\ c.pc = "power_levels"
    /\ room_pdus' = append_pdu(room_pdus, c.room_id, "m.room.power_levels", c.power_levels[1])
    /\ upgrade_done(t, did(c, "raise"), Ok(c.replacement_room))
    /\ roomid_mutex_state' = unlocked(t)
    /\ UNCHANGED <<global, roomid_shortroomid, alias_roomid, upgrade_count>>

\* build_and_append_pdu returns Err and the route returns with `?`
upgrade_fail(t) ==
    LET c == upgrade_task[t] IN
    /\ c.pc \in {"tombstone", "create", "join", "transfer", "power_levels"}
    /\ c.pc = "transfer" => next_transferable(room_pdus, c.room_id, c.index) # None
    /\ c.pc = "create" => room_state_get(room_pdus, c.room_id, "m.room.create") # None
    /\ upgrade_done(t, c, Err)
    /\ roomid_mutex_state' = unlocked(t)
    /\ UNCHANGED <<global, roomid_shortroomid, room_pdus, alias_roomid, upgrade_count>>

\* a room as createRoom leaves it, with the given other state events
created_room(users_default, other) ==
    <<[event_type |-> "m.room.create",
       content |-> [creator |-> Some(SyncUser), room_version |-> 10, predecessor |-> None]],
      [event_type |-> "m.room.member", content |-> [membership |-> "join"]],
      [event_type |-> "m.room.power_levels",
       content |-> [users_default |-> users_default, events_default |-> 0, invite |-> 0]]>>
    \o other

\* "!r" as it may be: users_default and its other state events
OldRooms ==
    {created_room(0, <<>>),
     created_room(50,
        <<[event_type |-> "m.room.join_rules", content |-> [join_rule |-> "public"]],
          [event_type |-> "m.room.name", content |-> [name |-> "r"]]>>)}

(***************************************************************************)
(* Room creation (api/client_server/room.rs, create_room_route and         *)
(* room_alias_check) and the alias namespaces of the appservices           *)
(* (service/appservice/mod.rs).                                            *)
(***************************************************************************)
CreateTasks == {"c1"}
\* the room the request creates: "!t"
CreatedRoom == <<33, 116>>
\* config.server_name: "s"
ServerName == <<115>>

VARIABLES
    create_task,     \* per request: position, the request, the steps it has done
    publicroomids    \* the rooms in the public room directory
createVars == <<create_task, publicroomids>>

\* a regular expression is modelled by a literal: it matches the strings
\* that contain it (Regex::is_match searches, it does not anchor)
contains(heystack, literal) ==
    \E i \in 0..(Len(heystack) - Len(literal)) :
        \A j \in DOMAIN literal : heystack[i + j] = literal[j]
RegexSet_is_match(set, heystack) == \E regex \in set : contains(heystack, regex)

\* NamespaceRegex: the exclusive and the non-exclusive expressions
is_exclusive_match(namespace, heystack) ==
    namespace.exclusive # None /\ RegexSet_is_match(namespace.exclusive[1], heystack)
is_match(namespace, heystack) ==
    \/ is_exclusive_match(namespace, heystack)
    \/ namespace.non_exclusive # None /\ RegexSet_is_match(namespace.non_exclusive[1], heystack)
\* TryFrom<Vec<Namespace>>
namespace_regex(namespaces) ==
    LET exclusive == {n.regex : n \in {m \in namespaces : m.exclusive}}
        non_exclusive == {n.regex : n \in {m \in namespaces : ~m.exclusive}}
    IN  [exclusive |-> IF exclusive = {} THEN None ELSE Some(exclusive),
         non_exclusive |-> IF non_exclusive = {} THEN None ELSE Some(non_exclusive)]

\* the registered appservices: "as1" claims "#x" exclusively and "#y" not
\* exclusively, "as2" claims "#z" not exclusively
registration_info ==
    [id \in {"as1", "as2"} |->
        [aliases |-> namespace_regex(
            IF id = "as1"
            THEN {[regex |-> <<35, 120>>, exclusive |-> TRUE],
                  [regex |-> <<35, 121>>, exclusive |-> FALSE]}
            ELSE {[regex |-> <<35, 122>>, exclusive |-> FALSE]})]]
is_exclusive_alias_all(registrations, alias) ==
    \A id \in DOMAIN registrations : is_exclusive_match(registrations[id].aliases, alias)
is_exclusive_alias(registrations, alias) ==
    \E id \in DOMAIN registrations : is_exclusive_match(registrations[id].aliases, alias)

\* config.forbidden_alias_names: "f"
forbidden_alias_names == {<<102>>}
is_whitespace(b) == b \in {9, 10, 11, 12, 13, 32}
has_byte(string, bytes) == \E i \in DOMAIN string : string[i] \in bytes
\* format!("#{}:{}", room_alias_name, server_name)
full_alias(room_alias_name) == <<35>> \o room_alias_name \o <<58>> \o ServerName

\* room_alias_check: the alias, or the error kind
room_alias_check(room_alias_name, appservice_info, aliases) ==
    LET full_room_alias == full_alias(room_alias_name) IN
    IF has_byte(room_alias_name, {58}) THEN [err |-> "InvalidParam"]
    ELSE IF has_byte(room_alias_name, {b \in 0..255 : is_whitespace(b)}) THEN [err |-> "InvalidParam"]
    ELSE IF Len(room_alias_name) > 255 THEN [err |-> "InvalidParam"]
    ELSE IF has_byte(room_alias_name, {34}) THEN [err |-> "InvalidParam"]
    ELSE IF RegexSet_is_match(forbidden_alias_names, room_alias_name) THEN [err |-> "Unknown"]
    ELSE IF resolve_local_alias(aliases, full_room_alias) # None THEN [err |-> "RoomInUse"]
    ELSE IF appservice_info # None
              /\ ~is_match(registration_info[appservice_info[1]].aliases, full_room_alias)
         THEN [err |-> "Exclusive"]
    ELSE IF appservice_info = None /\ is_exclusive_alias(registration_info, full_room_alias)
         THEN [err |-> "Exclusive"]
    ELSE [err |-> "", alias |-> full_room_alias]

\* the preset of the request, or the one its visibility implies
preset_of(body) ==
    IF body.preset # None THEN body.preset[1]
    ELSE IF body.visibility = "public" THEN "public_chat" ELSE "private_chat"
state_event(site, event_type, content) ==
    [site |-> site, event_type |-> event_type, content |-> content]

\* the events of initial_state that are appended, up to the first one that
\* does not deserialize
RECURSIVE initial_state_events_all(_, _)
initial_state_events_all(initial_state, allow_encryption) ==
    IF initial_state = <<>> THEN <<>>
    ELSE LET event == Head(initial_state)
             rest == initial_state_events_all(Tail(initial_state), allow_encryption)
         IN  IF event.content = "invalid" THEN <<state_event("invalid", "", "")>>
             ELSE IF event.event_type = "m.room.encryption" /\ ~allow_encryption THEN rest
             ELSE <<state_event("initial_state", event.event_type, event.content)>> \o rest
RECURSIVE initial_state_events(_, _)
initial_state_events(initial_state, allow_encryption) ==
    IF initial_state = <<>> THEN <<>>
    ELSE LET event == Head(initial_state)
             rest == initial_state_events(Tail(initial_state), allow_encryption)
         IN  IF event.content = "invalid" THEN <<state_event("invalid", "", "")>>
             ELSE IF event.content = "{}" THEN rest
             ELSE IF event.event_type = "m.room.encryption" /\ ~allow_encryption THEN rest
             ELSE <<state_event("initial_state", event.event_type, event.content)>> \o rest

\* the events create_room_route appends, in the order of its calls of
\* build_and_append_pdu
create_room_events(body, alias, allow_encryption) ==
    <<state_event("create", "m.room.create",
          [creator |-> Some(SyncUser), room_version |-> 10, predecessor |-> None]),
      state_event("join", "m.room.member", [membership |-> "join"]),
      state_event("power_levels", "m.room.power_levels",
          [users_default |-> 0, events_default |-> 0, invite |-> 0])>>
    \o (IF alias = None THEN <<>>
        ELSE <<state_event("canonical_alias", "m.room.canonical_alias", [alias |-> alias[1]])>>)
    \o <<state_event("join_rules", "m.room.join_rules",
             [join_rule |-> IF preset_of(body) = "public_chat" THEN "public" ELSE "invite"]),
         state_event("history_visibility", "m.room.history_visibility",
             [history_visibility |-> "shared"]),
         state_event("guest_access", "m.room.guest_access",
             [guest_access |-> IF preset_of(body) = "public_chat" THEN "forbidden"
                               ELSE "can_join"])>>
    \o initial_state_events(body.initial_state, allow_encryption)
    \o (IF body.name = None THEN <<>>
        ELSE <<state_event("name", "m.room.name", [name |-> body.name[1]])>>)
    \o (IF body.topic = None THEN <<>>
        ELSE <<state_event("topic", "m.room.topic", [topic |-> body.topic[1]])>>)

\* the alias localparts asked for: "x", "y", "w", "v", "f", one with a space,
\* one with a colon, one with a quote and one of 256 bytes
AliasNames ==
    {<<120>>, <<121>>, <<119>>, <<118>>, <<102>>, <<120, 32>>, <<58>>, <<34>>,
     [i \in 1..256 |-> 97]}
InitialStateEvents ==
    {[event_type |-> "m.room.avatar", content |-> "x"],
     [event_type |-> "m.room.avatar", content |-> "{}"],
     [event_type |-> "m.room.encryption", content |-> "e"],
     [event_type |-> "", content |-> "invalid"]}
\* the requests that differ in the alias and the sender
AliasBodies ==
    [preset : {None},
     visibility : {"public", "private"},
     room_alias_name : {None} \cup {Some(name) : name \in AliasNames},
     room_version : {None, Some(12)},
     initial_state : {<<>>},
     name : {None},
     topic : {None},
     invite : {<<>>},
     appservice_info : {None, Some("as1"), Some("as2")}]
\* the requests that differ in the events they ask for
EventBodies ==
    [preset : {None, Some("public_chat")},
     visibility : {"public", "private"},
     room_alias_name : {None, Some(<<119>>)},
     room_version : {None},
     initial_state : UNION {[1..n -> InitialStateEvents] : n \in 0..MaxInitialState},
     name : {None, Some("n")},
     topic : {None, Some("t")},
     invite : {<<>>, <<UserB>>},
     appservice_info : {None}]
CreateBodies == AliasBodies \cup EventBodies

IdleCreate ==
    [pc |-> "idle", body |-> <<>>, allow_encryption |-> FALSE, alias |-> None,
     pending |-> <<>>, invited |-> 0, steps |-> <<>>, result |-> <<>>]
create_done(t, c, result) ==
    create_task' = [create_task EXCEPT ![t] = [c EXCEPT !.pc = "done", !.result = Some(result)]]
done_step(c, site) == [c EXCEPT !.steps = Append(c.steps, site)]

\* POST /createRoom: room creation must be allowed to the sender; the room
\* id is made and its short id created
create_start(t, body, allowed, allow_encryption) ==
    LET c == [create_task[t] EXCEPT !.body = body, !.allow_encryption = allow_encryption] IN
    /\ create_task[t].pc = "idle"
    /\ IF ~allowed /\ body.appservice_info = None
       THEN /\ create_done(t, c, [kind |-> "forbidden"])
            /\ UNCHANGED <<global, roomid_shortroomid>>
       ELSE /\ get_shortroomid(roomid_shortroomid, CreatedRoom) = Ok(None)
            /\ global' = next_count(global).tree
            /\ roomid_shortroomid' =
                  tree_insert(roomid_shortroomid, CreatedRoom,
                              to_be_bytes(next_count(global).ret[1]))
            /\ create_task' = [create_task EXCEPT ![t] = [c EXCEPT !.pc = "lock"]]
    /\ UNCHANGED <<roomid_mutex_state, room_pdus, alias_roomid, publicroomids>>

\* the state mutex of the new room
create_lock(t) ==
    /\ create_task[t].pc = "lock"
    /\ state_mutex_of(CreatedRoom) = Free
    /\ roomid_mutex_state' = state_mutex_set(CreatedRoom, t)
    /\ create_task' = [create_task EXCEPT ![t].pc = "checks"]
    /\ UNCHANGED <<global, roomid_shortroomid, room_pdus, alias_roomid, publicroomids>>

\* the alias and the room version are checked before the first event
create_checks(t) ==
    LET c == create_task[t]
        checked == IF c.body.room_alias_name = None THEN [err |-> ""]
                   ELSE room_alias_check(c.body.room_alias_name[1], c.body.appservice_info,
                                         alias_roomid)
        alias == IF c.body.room_alias_name = None THEN None ELSE Some(checked.alias) IN
    /\ c.pc = "checks"
    /\ IF checked.err # ""
       THEN /\ create_done(t, c, [kind |-> checked.err])
            /\ roomid_mutex_state' = unlocked(t)
       ELSE IF c.body.room_version # None
                 /\ c.body.room_version[1] \notin supported_room_versions(FALSE)
       THEN /\ create_done(t, c, [kind |-> "UnsupportedRoomVersion"])
            /\ roomid_mutex_state' = unlocked(t)
       ELSE /\ create_task' = [create_task EXCEPT ![t] =
                  [c EXCEPT !.pc = "append", !.alias = alias,
                      !.pending = create_room_events(c.body, alias, c.allow_encryption)]]
            /\ UNCHANGED roomid_mutex_state
    /\ UNCHANGED <<global, roomid_shortroomid, room_pdus, alias_roomid, publicroomids>>

\* build_and_append_pdu of the next event returns Ok
create_append(t) ==
    LET c == create_task[t] IN
    /\ c.pc = "append" /\ c.pending # <<>> /\ Head(c.pending).site # "invalid"
    /\ room_pdus' = append_pdu(room_pdus, CreatedRoom, Head(c.pending).event_type,
                               Head(c.pending).content)
    /\ create_task' = [create_task EXCEPT ![t] =
          [done_step(c, Head(c.pending).site) EXCEPT !.pending = Tail(c.pending)]]
    /\ UNCHANGED <<global, roomid_shortroomid, roomid_mutex_state, alias_roomid, publicroomids>>

\* build_and_append_pdu returns Err, or the initial_state event does not
\* deserialize: the route returns with `?`
create_fail(t) ==
    LET c == create_task[t] IN
    /\ c.pc = "append" /\ c.pending # <<>>
    /\ create_done(t, c, [kind |-> IF Head(c.pending).site = "invalid" THEN "InvalidParam"
                                   ELSE "append"])
    /\ roomid_mutex_state' = unlocked(t)
    /\ UNCHANGED <<global, roomid_shortroomid, room_pdus, alias_roomid, publicroomids>>

\* drop(state_lock) after the last event
create_drop(t) ==
    LET c == create_task[t] IN
    /\ c.pc = "append" /\ c.pending = <<>>
    /\ roomid_mutex_state' = unlocked(t)
    /\ create_task' = [create_task EXCEPT ![t].pc = "invite"]
    /\ UNCHANGED <<global, roomid_shortroomid, room_pdus, alias_roomid, publicroomids>>

\* invite_helper for the next user of body.invite; its result is ignored
create_invite(t, invited) ==
    LET c == create_task[t]
        user_id == c.body.invite[c.invited + 1] IN
    /\ c.pc = "invite" /\ c.invited < Len(c.body.invite)
    /\ room_pdus' =
          IF invited
          THEN append_pdu(room_pdus, CreatedRoom, "m.room.member",
                          [membership |-> "invite", state_key |-> user_id])
          ELSE room_pdus
    /\ create_task' = [create_task EXCEPT ![t] =
          [done_step(c, "invite") EXCEPT !.invited = c.invited + 1]]
    /\ UNCHANGED <<global, roomid_shortroomid, roomid_mutex_state, alias_roomid, publicroomids>>

\* the alias is set, the room is published, Ok(room_id)
create_finish(t) ==
    LET c == create_task[t] IN
    /\ c.pc = "invite" /\ c.invited = Len(c.body.invite)
    /\ alias_roomid' =
          IF c.alias = None THEN alias_roomid ELSE set_alias(alias_roomid, c.alias[1], CreatedRoom)
    /\ publicroomids' =
          IF c.body.visibility = "public" THEN publicroomids \cup {CreatedRoom} ELSE publicroomids
    /\ create_done(t, c, [kind |-> "Ok", room_id |-> CreatedRoom])
    /\ UNCHANGED <<global, roomid_shortroomid, roomid_mutex_state, room_pdus>>

(***************************************************************************)
(* The first /sync of the creator of a room: create_room_route appends the *)
(* events of the room, then load_joined_room builds the room's section.    *)
(***************************************************************************)
\* the requests without alias, invites and initial_state
FirstBodies ==
    {body \in EventBodies :
        body.room_alias_name = None /\ body.invite = <<>> /\ body.initial_state = <<>>}

VARIABLES first_task  \* the createRoom request of the syncing user and its /sync calls
firstVars == <<first_task>>

IdleFirst == [pc |-> "idle", body |-> <<>>, pending |-> <<>>, created |-> <<>>,
              sent |-> 0, syncs |-> 0]
\* the event as build_and_append_pdu stores it: the sender is the creator,
\* the state key is empty but for the member event
first_pdu(event) ==
    [sender |-> SyncUser, kind |-> event.event_type,
     state_key |-> Some(IF event.event_type = RoomMember THEN SyncUser ELSE <<>>),
     membership |-> IF event.event_type = RoomMember THEN event.content.membership ELSE ""]
\* append_pdu: the event gets the next count; a state event makes a new room state
first_append_pdu(pdu) ==
    LET count == next_count(global).ret[1]
        current == IF shortstatehash_state = <<>> THEN <<>>
                   ELSE state_full_ids(current_shortstatehash)
        key == <<pdu.kind, pdu.state_key[1]>>
    IN
    /\ global' = next_count(global).tree
    /\ pduid_pdu' = tree_insert(pduid_pdu, pdu_id(shortroomid_of(LazyRoom), count), pdu)
    /\ shortstatehash_state' =
          IF pdu.state_key = None THEN shortstatehash_state
          ELSE Append(shortstatehash_state,
                      [k \in DOMAIN current \cup {key} |-> IF k = key THEN count ELSE current[k]])

\* POST /createRoom of the syncing user: the room id gets its short id
first_create(body) ==
    /\ first_task.pc = "idle"
    /\ get_shortroomid(roomid_shortroomid, LazyRoom) = Ok(None)
    /\ global' = next_count(global).tree
    /\ roomid_shortroomid' =
          tree_insert(roomid_shortroomid, LazyRoom, to_be_bytes(next_count(global).ret[1]))
    /\ first_task' = [first_task EXCEPT !.pc = "append", !.body = body,
                         !.pending = create_room_events(body, None, FALSE)]
    /\ UNCHANGED <<pduid_pdu, lazyVars, deviceVars>>
\* build_and_append_pdu of the next event of the request
first_append ==
    /\ first_task.pc = "append" /\ first_task.pending # <<>>
    /\ first_append_pdu(first_pdu(Head(first_task.pending)))
    /\ first_task' = [first_task EXCEPT !.pending = Tail(first_task.pending),
                         !.created = Append(first_task.created, next_count(global).ret[1])]
    /\ UNCHANGED <<roomid_shortroomid, roomsynctoken_shortstatehash, lazy_load_waiting,
                   lazyloadedids, lazy_filter, lazy_tokens, lazy_last, lazy_sent,
                   lazy_confirmed, todeviceid_events, device_task, device_last, device_log>>
\* Ok(create_room::v3::Response::new(room_id))
first_created ==
    /\ first_task.pc = "append" /\ first_task.pending = <<>>
    /\ first_task' = [first_task EXCEPT !.pc = "created"]
    /\ UNCHANGED <<global, roomid_shortroomid, pduid_pdu, lazyVars, deviceVars>>
\* the creator sends a message to the room
first_send ==
    /\ first_task.pc = "created" /\ lazy_last = <<>>
    /\ first_task.sent < MaxFirstMessages
    /\ first_append_pdu([sender |-> SyncUser, kind |-> RoomMessage, state_key |-> None,
                         membership |-> ""])
    /\ first_task' = [first_task EXCEPT !.sent = first_task.sent + 1]
    /\ UNCHANGED <<roomid_shortroomid, roomsynctoken_shortstatehash, lazy_load_waiting,
                   lazyloadedids, lazy_filter, lazy_tokens, lazy_last, lazy_sent,
                   lazy_confirmed, todeviceid_events, device_task, device_last, device_log>>
\* GET /sync of the creator after createRoom has returned
first_sync(token, full_state, element_hacks) ==
    /\ first_task.pc = "created"
    /\ first_task.syncs < MaxFirstSyncs
    /\ lazy_sync(token, full_state, element_hacks)
    /\ first_task' = [first_task EXCEPT !.syncs = first_task.syncs + 1]
    /\ UNCHANGED roomid_shortroomid
first_return ==
    /\ lazy_return
    /\ UNCHANGED <<roomid_shortroomid, first_task>>

(***************************************************************************)
(* The authentication of a request (api/ruma_wrapper/auth.rs): the access  *)
(* token of a client or an appservice, or the X-Matrix signature of a      *)
(* server.                                                                 *)
(***************************************************************************)
AuthSchemes == {"None", "AccessToken", "AccessTokenOptional", "AppserviceToken",
                "ServerSignatures"}
PublicRoomsPaths == {"/_matrix/client/v3/publicRooms", "/_matrix/client/r0/publicRooms"}
\* the servers "o" and "p", and "q" that is not this server
OriginO == <<111>>
OriginP == <<112>>
OtherDestination == <<113>>
\* the users that exist: "@x:s", "@u:s" and "@b:s"
ExistingUsers == {<<64, 120, 58, 115>>, <<64, 117, 58, 115>>, <<64, 98, 58, 115>>}

VARIABLES auth_task  \* the request being authenticated
authVars == <<auth_task>>

\* the user namespaces, tokens and sender_localparts of the appservices:
\* "as1" claims "@x" exclusively and its own user is "@b:s"
registration_users ==
    [id \in {"as1", "as2"} |->
        [users |-> namespace_regex(
            IF id = "as1" THEN {[regex |-> <<64, 120>>, exclusive |-> TRUE]}
            ELSE {[regex |-> <<64, 121>>, exclusive |-> FALSE]}),
         registration |-> [as_token |-> IF id = "as1" THEN "a1" ELSE "a2",
                           sender_localpart |-> IF id = "as1" THEN <<98>> ELSE <<99>>]]]
\* appservice.find_from_token: the first registration with this as_token
appservice_find_from_token(registrations, token) ==
    LET found == {id \in DOMAIN registrations : registrations[id].registration.as_token = token}
    IN  IF found = {} THEN None
        ELSE Some(CHOOSE id \in found : \A other \in found : id = other \/ id = "as1")
\* users.find_from_token: the user and the device of an access token
users_find_from_token(token) ==
    IF token = "u" THEN Some(<<<<64, 117, 58, 115>>, SyncDevice>>) ELSE None
users_exists(user_id) == user_id \in ExistingUsers

\* UserId::parse: '@', a localpart, ':' and a server name
colon_at(string) ==
    IF \E j \in DOMAIN string : string[j] = 58
    THEN CHOOSE j \in DOMAIN string : string[j] = 58 /\ \A i \in 1..(j - 1) : string[i] # 58
    ELSE 0
UserId_parse(string) ==
    IF Len(string) > 0 /\ string[1] = 64 /\ colon_at(string) > 1 /\ colon_at(string) < Len(string)
    THEN Ok(string) ELSE Err
UserId_parse_with_server_name(id, server_name) ==
    IF Len(id) > 0 /\ id[1] = 64 THEN UserId_parse(id)
    ELSE UserId_parse(<<64>> \o id \o <<58>> \o server_name)
localpart(user_id) == SubSeq(user_id, 2, colon_at(user_id) - 1)
\* RegistrationInfo::is_user_match
is_user_match(info, user_id) ==
    is_match(info.users, user_id) \/ info.registration.sender_localpart = localpart(user_id)

Auth(sender_user, sender_device, origin, appservice_info) ==
    [kind |-> "Ok", sender_user |-> sender_user, sender_device |-> sender_device,
     origin |-> origin, appservice_info |-> appservice_info]
BadRequest(kind, msg) == [kind |-> kind, msg |-> msg]

\* the token of the request: the bearer token, or else the access_token of the query
request_token(request) ==
    IF request.header.scheme = "Bearer" THEN Some(request.header.token)
    ELSE request.query_access_token
token_of(request) ==
    LET token == request_token(request) IN
    IF token = None THEN [kind |-> "None"]
    ELSE IF appservice_find_from_token(registration_users, token[1]) # None
         THEN [kind |-> "Appservice",
               info |-> appservice_find_from_token(registration_users, token[1])[1]]
    ELSE IF users_find_from_token(token[1]) # None
         THEN [kind |-> "User", user |-> users_find_from_token(token[1])[1]]
    ELSE [kind |-> "Invalid"]

auth_appservice_without_exists(request, info) ==
    LET user_id == IF request.query_user_id = None
                   THEN UserId_parse_with_server_name(
                            registration_users[info].registration.sender_localpart, ServerName)
                   ELSE UserId_parse(request.query_user_id[1]) IN
    IF user_id = Err THEN BadRequest("InvalidUsername", "Username is invalid.")
    ELSE IF ~is_user_match(registration_users[info], user_id[1])
         THEN BadRequest("Exclusive", "User is not in namespace.")
    ELSE Auth(Some(user_id[1]), None, None, Some(info))
auth_appservice(request, info) ==
    LET user_id == IF request.query_user_id = None
                  THEN UserId_parse_with_server_name(
                           registration_users[info].registration.sender_localpart, ServerName)
                  ELSE UserId_parse(request.query_user_id[1]) IN
    IF user_id = Err THEN BadRequest("InvalidUsername", "Username is invalid.")
    ELSE IF ~is_user_match(registration_users[info], user_id[1])
         THEN BadRequest("Exclusive", "User is not in namespace.")
    ELSE IF ~users_exists(user_id[1]) THEN BadRequest("forbidden", "User does not exist.")
    ELSE Auth(Some(user_id[1]), None, None, Some(info))

\* the check of the public rooms directory, for the endpoints without authentication
public_rooms_check(request, token, allow_public_room_directory_without_auth) ==
    /\ request.scheme = "None"
    /\ request.path \in PublicRoomsPaths
    /\ ~allow_public_room_directory_without_auth
    /\ token.kind \in {"None", "Invalid"}
\* the match on (metadata.authentication, token); "server" stands for the
\* call of auth_server
auth_match(request, token) ==
    IF token.kind = "Invalid" THEN BadRequest("UnknownToken", "Unknown access token.")
    ELSE IF request.scheme = "AccessToken" /\ token.kind = "Appservice"
         THEN auth_appservice(request, token.info)
    ELSE IF token.kind = "Appservice" /\ request.scheme # "ServerSignatures"
         THEN Auth(None, None, None, Some(token.info))
    ELSE IF request.scheme = "AccessToken" /\ token.kind = "None"
         THEN BadRequest("MissingToken", "Missing access token.")
    ELSE IF token.kind = "User"
            /\ request.scheme \in {"AccessToken", "AccessTokenOptional", "None"}
         THEN Auth(Some(token.user[1]), Some(token.user[2]), None, None)
    ELSE IF request.scheme = "ServerSignatures" /\ token.kind = "None"
         THEN [kind |-> "server"]
    ELSE IF token.kind = "None" THEN Auth(None, None, None, None)
    ELSE IF request.scheme = "ServerSignatures"
         THEN BadRequest("Unauthorized",
                         "Only server signatures should be used on this endpoint.")
    ELSE BadRequest("Unauthorized",
                    "Only appservice access tokens should be used on this endpoint.")

\* the signing keys the servers have published: key id -> public key
server_keys ==
    (OriginO :> ("k1" :> "pub_o")) @@ (OriginP :> ("k1" :> "pub_p"))
\* fetch_signing_keys_for_server: the keys of the origin, or an error when
\* the key asked for cannot be had
fetch_signing_keys_for_server(origin, key_id) ==
    {Err} \cup (IF key_id \in DOMAIN server_keys[origin] THEN {Ok(server_keys[origin])} ELSE {})
\* a signature names the public key of its signer and the object signed
signed_part(object) == [field \in DOMAIN object \ {"signatures"} |-> object[field]]
sign(public_key, object) == [public_key |-> public_key, object |-> signed_part(object)]
\* ruma::signatures::verify_json: every signature of the object is by a
\* key of the map and is over the object without its signatures
verify_json(pub_key_map, object) ==
    \A entity \in DOMAIN object.signatures :
        /\ entity \in DOMAIN pub_key_map
        /\ \A key_id \in DOMAIN object.signatures[entity] :
              /\ key_id \in DOMAIN pub_key_map[entity]
              /\ object.signatures[entity][key_id] =
                    sign(pub_key_map[entity][key_id], object)

\* the object whose signature is verified
request_map_no_content(request, x_matrix) ==
    [method |-> request.method, uri |-> request.path,
     origin |-> x_matrix.origin, destination |-> ServerName,
     signatures |-> (x_matrix.origin :> (x_matrix.key :> x_matrix.sig))]
request_map(request, x_matrix) ==
    LET fields == [method |-> request.method, uri |-> request.path,
                   origin |-> x_matrix.origin, destination |-> ServerName,
                   signatures |-> (x_matrix.origin :> (x_matrix.key :> x_matrix.sig))]
    IN  IF request.json = None THEN fields ELSE fields @@ [content |-> request.json[1]]

\* auth_server up to the fetch of the keys: an error, or "fetch"
auth_server_checks(request, allow_federation) ==
    IF ~allow_federation THEN [kind |-> "bad_config", msg |-> "Federation is disabled."]
    ELSE IF request.header.scheme = "Missing"
         THEN BadRequest("forbidden", "Missing Authorization header.")
    ELSE IF request.header.scheme # "X-Matrix"
         THEN BadRequest("forbidden", "Invalid X-Matrix signatures.")
    ELSE IF request.header.x_matrix.destination # None
            /\ request.header.x_matrix.destination[1] # ServerName
         THEN BadRequest("forbidden", "Invalid authorization.")
    ELSE [kind |-> "fetch"]
\* auth_server from the result of fetch_signing_keys_for_server
auth_server_verify(request, keys_result) ==
    LET x_matrix == request.header.x_matrix IN
    IF keys_result = Err THEN BadRequest("forbidden", "Failed to fetch signing keys.")
    ELSE IF verify_json(x_matrix.origin :> keys_result[1], request_map(request, x_matrix))
         THEN Auth(None, None, Some(x_matrix.origin), None)
    ELSE BadRequest("forbidden", "Failed to verify X-Matrix signatures.")

\* the objects a signature of a request is over: the request as this
\* server reads it, or the same with one field changed
SignedObjects(method, path, json, origin) ==
    LET right == [method |-> method, uri |-> path, origin |-> origin,
                  destination |-> ServerName] IN
    {IF content = None THEN fields ELSE fields @@ [content |-> content[1]] :
        fields \in {right, [right EXCEPT !.method = "GET"], [right EXCEPT !.uri = "/other"],
                    [right EXCEPT !.origin = IF origin = OriginO THEN OriginP ELSE OriginO],
                    [right EXCEPT !.destination = OtherDestination]},
        content \in {json}}
    \cup {right @@ [content |-> "d"], right}
XMatrixHeaders(method, path, json) ==
    UNION {{[scheme |-> "X-Matrix",
             x_matrix |-> [origin |-> origin, destination |-> destination, key |-> key,
                           sig |-> [public_key |-> public_key, object |-> object]]] :
               destination \in {None, Some(ServerName), Some(OtherDestination)},
               key \in {"k1", "k2"}, public_key \in {"pub_o", "pub_p"},
               object \in SignedObjects(method, path, json, origin)} :
           origin \in {OriginO, OriginP}}
BearerHeaders == {[scheme |-> "Bearer", token |-> token] : token \in {"u", "a1", "a2", "bad"}}
\* the requests to the federation endpoints
ServerRequests ==
    UNION {[scheme : {"ServerSignatures"}, path : {"/send"}, method : {"PUT"}, json : {json},
            header : XMatrixHeaders("PUT", "/send", json)
                     \cup {[scheme |-> "Missing"], [scheme |-> "Invalid"],
                           [scheme |-> "Bearer", token |-> "u"]},
            query_access_token : {None, Some("u"), Some("a1"), Some("bad")},
            query_user_id : {None}] : json \in {None, Some("c")}}
\* the requests to the other endpoints
TokenRequests ==
    [scheme : AuthSchemes \ {"ServerSignatures"},
     path : {"/_matrix/client/v3/publicRooms", "/other"},
     method : {"GET"}, json : {None},
     header : BearerHeaders \cup {[scheme |-> "Missing"]},
     query_access_token : {None, Some("u"), Some("bad")},
     query_user_id : {None, Some(<<64, 120, 58, 115>>), Some(<<64, 120, 110, 58, 115>>),
                      Some(<<64, 117, 58, 115>>), Some(<<120>>), Some(<<64, 98, 58, 111>>)}]
AuthRequests == ServerRequests \cup TokenRequests

IdleAuth == [pc |-> "idle", request |-> <<>>, allow_federation |-> FALSE,
             allow_public_room_directory_without_auth |-> FALSE, token |-> <<>>,
             result |-> <<>>]
auth_done(a, result) == auth_task' = [a EXCEPT !.pc = "done", !.result = result]

\* a request arrives
auth_start(request, allow_federation, allow_public_room_directory_without_auth) ==
    /\ auth_task.pc = "idle"
    /\ auth_task' = [auth_task EXCEPT !.pc = "token", !.request = request,
                        !.allow_federation = allow_federation,
                        !.allow_public_room_directory_without_auth =
                            allow_public_room_directory_without_auth]
\* the token is looked up; the public rooms directory may need one
auth_token ==
    LET a == [auth_task EXCEPT !.token = token_of(auth_task.request)] IN
    /\ auth_task.pc = "token"
    /\ IF public_rooms_check(a.request, a.token, a.allow_public_room_directory_without_auth)
       THEN auth_done(a, BadRequest("MissingToken", "Missing or invalid access token."))
       ELSE auth_task' = [a EXCEPT !.pc = "match"]
\* the match on the scheme and the token, and auth_server up to the fetch
auth_scheme ==
    LET a == auth_task
        matched == auth_match(a.request, a.token)
        checked == auth_server_checks(a.request, a.allow_federation) IN
    /\ a.pc = "match"
    /\ IF matched.kind # "server" THEN auth_done(a, matched)
       ELSE IF checked.kind # "fetch" THEN auth_done(a, checked)
       ELSE auth_task' = [a EXCEPT !.pc = "fetch"]
\* the keys are fetched and the signature verified
auth_server(keys_result) ==
    /\ auth_task.pc = "fetch"
    /\ auth_done(auth_task, auth_server_verify(auth_task.request, keys_result))

(***************************************************************************)
(* GET /rooms/{roomId}/event/{eventId} (get_room_event_route).             *)
(***************************************************************************)
\* the events "$a" and "$b" of "!r", "$c" of "!s"; "$d" is not stored
RoomEvents ==
    (<<36, 97>> :> [room_id |-> <<33, 114>>, event_id |-> <<36, 97>>])
    @@ (<<36, 98>> :> [room_id |-> <<33, 114>>, event_id |-> <<36, 98>>])
    @@ (<<36, 99>> :> [room_id |-> <<33, 115>>, event_id |-> <<36, 99>>])
RequestedEvents == DOMAIN RoomEvents \cup {<<36, 100>>}

VARIABLES
    event_joined,   \* the rooms the requesting user is joined to
    event_visible,  \* the events the state accessor lets the user see
    event_task      \* the request and its response
eventVars == <<event_joined, event_visible, event_task>>

IdleEvent == [pc |-> "idle", room_id |-> <<>>, event_id |-> <<>>, result |-> <<>>]
\* timeline.get_pdu
get_pdu(event_id) == IF event_id \in DOMAIN RoomEvents THEN Some(RoomEvents[event_id]) ELSE None
\* state_accessor.user_can_see_event
user_can_see_event(visible, user_id, room_id, event_id) == event_id \in visible
get_room_event(joined, visible, sender_user, body) ==
    LET event == get_pdu(body.event_id) IN
    IF event = None THEN [kind |-> "NotFound"]
    ELSE IF ~user_can_see_event(visible, sender_user, event[1].room_id, body.event_id)
         THEN [kind |-> "forbidden"]
    ELSE [kind |-> "Ok", event |-> event[1]]

\* the user joins or leaves a room
event_membership(room_id) ==
    /\ event_task.pc = "idle"
    /\ event_joined' = IF room_id \in event_joined THEN event_joined \ {room_id}
                       ELSE event_joined \cup {room_id}
    /\ UNCHANGED <<event_visible, event_task>>
\* the history visibility or the membership history changes what the user may see
event_visibility(event_id) ==
    /\ event_task.pc = "idle"
    /\ event_visible' = IF event_id \in event_visible THEN event_visible \ {event_id}
                        ELSE event_visible \cup {event_id}
    /\ UNCHANGED <<event_joined, event_task>>
get_room_event_route(room_id, event_id) ==
    /\ event_task.pc = "idle"
    /\ event_task' = [pc |-> "done", room_id |-> room_id, event_id |-> event_id,
                      result |-> get_room_event(event_joined, event_visible, SyncUser,
                                                [room_id |-> room_id, event_id |-> event_id])]
    /\ UNCHANGED <<event_joined, event_visible>>
event_return ==
    /\ event_task.pc = "done"
    /\ event_task' = IdleEvent
    /\ UNCHANGED <<event_joined, event_visible>>

(***************************************************************************)
(* The signing keys of the other servers (globals add_signing_key and      *)
(* signing_keys_for): one value of server_signingkeys per origin.          *)
(***************************************************************************)
KeyTasks == {"g1", "g2"}
KeyOrigins == {OriginO, OriginP}
NoKeys == <<>>
\* the ServerSigningKeys a caller has fetched: key id -> key
NewKeys ==
    {[verify_keys |-> ("ed25519:1" :> "a"), old_verify_keys |-> NoKeys],
     [verify_keys |-> ("ed25519:2" :> "b"), old_verify_keys |-> ("ed25519:1" :> "a")],
     [verify_keys |-> ("ed25519:3" :> "c"), old_verify_keys |-> NoKeys],
     [verify_keys |-> NoKeys, old_verify_keys |-> ("ed25519:0" :> "z")]}
\* serde_json::to_vec of a ServerSigningKeys, and from_slice(..).ok() of
\* stored bytes, which may not be a ServerSigningKeys
to_vec(keys) ==
    [valid |-> TRUE, verify_keys |-> keys.verify_keys, old_verify_keys |-> keys.old_verify_keys]
from_slice(bytes) ==
    IF bytes.valid
    THEN Some([verify_keys |-> bytes.verify_keys, old_verify_keys |-> bytes.old_verify_keys])
    ELSE None
\* what the tree holds for an origin at the start: nothing, bytes that are
\* not a ServerSigningKeys, or keys stored before
StoredKeys ==
    {None, Some([valid |-> FALSE, verify_keys |-> NoKeys, old_verify_keys |-> NoKeys]),
     Some(to_vec([verify_keys |-> ("ed25519:0" :> "z"), old_verify_keys |-> NoKeys]))}

VARIABLES
    server_signingkeys,  \* origin -> the stored value, or None
    key_task             \* the calls of add_signing_key
keyVars == <<server_signingkeys, key_task>>

IdleKey == [pc |-> "idle", origin |-> <<>>, new_keys |-> <<>>, keys |-> <<>>, result |-> <<>>]
\* BTreeMap::extend: the entries of `other` replace those of `map`
extend(map, other) ==
    [id \in DOMAIN map \cup DOMAIN other |-> IF id \in DOMAIN other THEN other[id] ELSE map[id]]
\* ServerSigningKeys::new
new_server_signing_keys == [verify_keys |-> NoKeys, old_verify_keys |-> NoKeys]
\* the verify keys extended by the old verify keys
key_tree(keys) == extend(keys.verify_keys, keys.old_verify_keys)
\* the stored keys extended by the new ones
extended_keys(signingkeys, new_keys) ==
    LET keys == IF signingkeys = None \/ from_slice(signingkeys[1]) = None
                THEN new_server_signing_keys ELSE from_slice(signingkeys[1])[1]
    IN  [verify_keys |-> extend(keys.verify_keys, new_keys.verify_keys),
         old_verify_keys |-> extend(keys.old_verify_keys, new_keys.old_verify_keys)]
signing_keys_for(tree, origin) ==
    IF tree[origin] = None \/ from_slice(tree[origin][1]) = None THEN NoKeys
    ELSE key_tree(from_slice(tree[origin][1])[1])

\* add_signing_key(origin, new_keys) is called
key_start(t, origin, new_keys) ==
    /\ key_task[t].pc = "idle"
    /\ key_task' = [key_task EXCEPT ![t] = [IdleKey EXCEPT !.pc = "get", !.origin = origin,
                                               !.new_keys = new_keys]]
    /\ UNCHANGED server_signingkeys
\* server_signingkeys.get and the two extend calls
key_get(t) ==
    LET k == key_task[t] IN
    /\ k.pc = "get"
    /\ key_task' = [key_task EXCEPT ![t] =
          [k EXCEPT !.pc = "insert",
                    !.keys = extended_keys(server_signingkeys[k.origin], k.new_keys)]]
    /\ UNCHANGED server_signingkeys
\* server_signingkeys.insert
key_insert(t) ==
    LET k == key_task[t] IN
    /\ k.pc = "insert"
    /\ server_signingkeys' = [server_signingkeys EXCEPT ![k.origin] = Some(to_vec(k.keys))]
    /\ key_task' = [key_task EXCEPT ![t].pc = "return"]
\* Ok(tree)
key_return(t) ==
    LET k == key_task[t] IN
    /\ k.pc = "return"
    /\ key_task' = [key_task EXCEPT ![t] = [k EXCEPT !.pc = "done", !.result = key_tree(k.keys)]]
    /\ UNCHANGED server_signingkeys

(***************************************************************************)
(* The file name of a Content-Disposition header                           *)
(* (core/utils/content_disposition.rs).  A string is the sequence of its   *)
(* code points.                                                            *)
(***************************************************************************)
\* '/', '\', CR, LF, 'a', '.', ':', ' ' and the control character U+0085
NameChars == {47, 92, 13, 10, 97, 46, 58, 32, 133}
\* "con", "CON.a" and "a.."
ReservedNames == {<<99, 111, 110>>, <<67, 79, 78, 46, 97>>, <<97, 46, 46>>}
FileNames == UNION {[1..n -> NameChars] : n \in 0..MaxNameLen} \cup ReservedNames
ATTACHMENT == <<97, 116, 116, 97, 99, 104, 109, 101, 110, 116>>
INLINE == <<105, 110, 108, 105, 110, 101>>
\* "filename="
FILENAME_IS == <<102, 105, 108, 101, 110, 97, 109, 101, 61>>

VARIABLES sanitise_task  \* the call and its result
sanitiseVars == <<sanitise_task>>

\* Regex::replace_all of a character class by the empty replacement
delete_chars(string, class) == SelectSeq(string, LAMBDA ch : ch \notin class)
\* the character classes of sanitize_filename: ILLEGAL_RE [/\?<>\\:\*\|":]
\* and CONTROL_RE [\x00-\x1f\x80-\x9f]
ILLEGAL == {47, 63, 60, 62, 92, 58, 42, 124, 34}
CONTROL == (0..31) \cup (128..159)
\* RESERVED_RE ^\.+$
is_reserved(string) == string # <<>> /\ \A j \in DOMAIN string : string[j] = 46
\* WINDOWS_RESERVED_RE (?i)^(con|prn|aux|nul|com[0-9]|lpt[0-9])(\..*)?$
to_lower(ch) == IF ch \in 65..90 THEN ch + 32 ELSE ch
windows_reserved_stems ==
    {<<99, 111, 110>>, <<112, 114, 110>>, <<97, 117, 120>>, <<110, 117, 108>>}
    \cup {<<99, 111, 109, d>> : d \in 48..57} \cup {<<108, 112, 116, d>> : d \in 48..57}
is_windows_reserved(string) ==
    \E stem \in windows_reserved_stems :
        /\ Len(string) >= Len(stem)
        /\ \A j \in DOMAIN stem : to_lower(string[j]) = stem[j]
        /\ Len(string) = Len(stem) \/ string[Len(stem) + 1] = 46
\* WINDOWS_TRAILING_RE [\. ]+$
RECURSIVE strip_trailing(_)
strip_trailing(string) ==
    IF string # <<>> /\ string[Len(string)] \in {46, 32}
    THEN strip_trailing(SubSeq(string, 1, Len(string) - 1)) ELSE string
\* sanitize_filename::sanitize_with_options with the empty replacement
sanitize_with_options(name, windows, truncate) ==
    LET legal == delete_chars(delete_chars(name, ILLEGAL), CONTROL)
        kept == IF is_reserved(legal) THEN <<>> ELSE legal
        on_windows == IF ~windows THEN kept
                      ELSE strip_trailing(IF is_windows_reserved(kept) THEN <<>> ELSE kept)
    IN  IF truncate /\ Len(on_windows) > 255 THEN SubSeq(on_windows, 1, 255) ELSE on_windows
\* a sanitiser that deletes the path separators only
sanitise_filename_separators_only(filename, windows) == delete_chars(filename, {47, 92})
\* sanitise_filename: the default options but for truncate; `windows` is
\* cfg!(windows) of the build
sanitise_filename(filename, windows) == sanitize_with_options(filename, windows, FALSE)

\* str::split_once: the part after the first occurrence of the pattern
first_match(string, pattern) ==
    LET starts == {i \in 1..(Len(string) - Len(pattern) + 1) :
                      \A j \in DOMAIN pattern : string[i + j - 1] = pattern[j]}
    IN  IF starts = {} THEN 0 ELSE CHOOSE i \in starts : \A other \in starts : i <= other
split_once_after(string, pattern) ==
    IF first_match(string, pattern) = 0 THEN None
    ELSE Some(SubSeq(string, first_match(string, pattern) + Len(pattern), Len(string)))
\* make_content_disposition; disposition_type is content_disposition_type(file, content_type)
make_content_disposition(disposition_type, content_disposition, req_filename, windows) ==
    LET after == IF content_disposition = None THEN None
                 ELSE split_once_after(content_disposition[1], FILENAME_IS)
        filename == IF req_filename # None THEN sanitise_filename(req_filename[1], windows)
                    ELSE IF after = None \/ after = Some(<<>>) THEN <<>>
                    ELSE sanitise_filename(after[1], windows)
    IN  IF filename # <<>> THEN disposition_type \o <<59, 32>> \o FILENAME_IS \o filename
        ELSE disposition_type

IdleSanitise == [pc |-> "idle", filename |-> <<>>, windows |-> FALSE, header |-> None,
                 result |-> <<>>]
\* sanitise_filename(filename)
sanitise_call(filename, windows) ==
    /\ sanitise_task.pc = "idle"
    /\ sanitise_task' = [pc |-> "sanitised", filename |-> filename, windows |-> windows,
                         header |-> None, result |-> sanitise_filename(filename, windows)]
\* make_content_disposition with the file name of the request, or with the
\* one of the stored Content-Disposition
disposition_call(filename, windows, disposition_type, requested, prefix) ==
    /\ sanitise_task.pc = "idle"
    /\ sanitise_task' =
          [pc |-> "made", filename |-> filename, windows |-> windows,
           header |-> Some(prefix \o FILENAME_IS \o filename),
           result |-> make_content_disposition(
                         disposition_type,
                         IF requested THEN None ELSE Some(prefix \o FILENAME_IS \o filename),
                         IF requested THEN Some(filename) ELSE None, windows)]

(***************************************************************************)
(* send_join (api/server_server.rs create_join_event) next to the other    *)
(* incoming events of the room.  A room state is the set of its state      *)
(* events; a shortstatehash is the index of an interned state.             *)
(***************************************************************************)
JoinTasks == {"j1", "j2"}
\* "$j" and "$k", the member event each request carries
JoinEvent == [j1 |-> <<36, 106>>, j2 |-> <<36, 107>>]
JoinKinds == {"create_join_event", "send_transaction_message"}

VARIABLES
    statehash_state,        \* shortstatehash -> the interned room state
    roomid_shortstatehash,  \* room id -> the room's current shortstatehash
    pdu_shortstatehash,     \* event id -> shortstatehash of the state before the event
    join_task               \* per request: position, room, the hash it read, response
joinVars == <<statehash_state, roomid_shortstatehash, pdu_shortstatehash, join_task>>

IdleJoin == [pc |-> "idle", kind |-> "none", room_id |-> <<>>, shortstatehash |-> 0,
             response |-> [ok |-> FALSE, state |-> {}]]
\* get_room_shortstatehash
get_room_shortstatehash(room_id) == tree_get(roomid_shortstatehash, room_id)
\* state_accessor state_full_ids
join_state_full_ids(shortstatehash) == statehash_state[shortstatehash]
\* the state hash create_join_event answers with: the one read on entry
join_response_shortstatehash(c) == c.shortstatehash

\* create_join_event up to the first await: exists, acl_check, the room's
\* current shortstatehash, the event id and the signature; a transaction
\* has parsed its PDU
join_start(t, kind, room_id, accepted) ==
    /\ join_task[t].pc = "idle"
    /\ JoinEvent[t] \notin DOMAIN pdu_shortstatehash
    /\ join_task' = [join_task EXCEPT ![t] =
          IF kind = "send_transaction_message"
          THEN [IdleJoin EXCEPT !.pc = "lock", !.kind = kind, !.room_id = room_id]
          ELSE IF ~accepted \/ get_room_shortstatehash(room_id) = None
          THEN [IdleJoin EXCEPT !.pc = "done", !.kind = kind, !.room_id = room_id]
          ELSE [IdleJoin EXCEPT !.pc = "lock", !.kind = kind, !.room_id = room_id,
                                !.shortstatehash = get_room_shortstatehash(room_id)[1]]]
    /\ UNCHANGED <<statehash_state, roomid_shortstatehash, pdu_shortstatehash,
                   roomid_mutex_federation>>

\* fetch_required_signing_keys returned; roomid_mutex_federation
\* entry(room_id).or_default(), lock().await
join_lock(t, keys_fetched) ==
    LET c == join_task[t] IN
    /\ c.pc = "lock"
    /\ IF c.kind = "create_join_event" /\ ~keys_fetched
       THEN /\ join_task' = [join_task EXCEPT ![t].pc = "done"]
            /\ UNCHANGED roomid_mutex_federation
       ELSE /\ roomid_mutex_federation[c.room_id] = Free
            /\ roomid_mutex_federation' = [roomid_mutex_federation EXCEPT ![c.room_id] = t]
            /\ join_task' = [join_task EXCEPT ![t].pc = "handling"]
    /\ UNCHANGED <<statehash_state, roomid_shortstatehash, pdu_shortstatehash>>

\* handle_incoming_pdu: the state before the event is the room's state, the
\* state after it has the event added, is interned and becomes the room's
\* state; an error leaves create_join_event with `?`, dropping the guard
join_handle(t, accepted) ==
    LET c == join_task[t]
        before == roomid_shortstatehash[c.room_id]
        after == join_state_full_ids(before) \cup {JoinEvent[t]}
    IN
    /\ c.pc = "handling"
    /\ IF accepted
       THEN /\ pdu_shortstatehash' = tree_insert(pdu_shortstatehash, JoinEvent[t], before)
            /\ statehash_state' = Append(statehash_state, after)
            /\ roomid_shortstatehash' =
                  [roomid_shortstatehash EXCEPT ![c.room_id] = Len(statehash_state) + 1]
            /\ join_task' = [join_task EXCEPT ![t].pc = "unlock"]
            /\ UNCHANGED roomid_mutex_federation
       ELSE /\ join_task' = [join_task EXCEPT ![t].pc = "done"]
            /\ roomid_mutex_federation' = [roomid_mutex_federation EXCEPT ![c.room_id] = Free]
            /\ UNCHANGED <<statehash_state, roomid_shortstatehash, pdu_shortstatehash>>

\* drop(mutex_lock)
join_unlock(t) ==
    LET c == join_task[t] IN
    /\ c.pc = "unlock"
    /\ roomid_mutex_federation' = [roomid_mutex_federation EXCEPT ![c.room_id] = Free]
    /\ join_task' = [join_task EXCEPT ![t].pc =
          IF c.kind = "create_join_event" THEN "respond" ELSE "done"]
    /\ UNCHANGED <<statehash_state, roomid_shortstatehash, pdu_shortstatehash>>

\* state_full_ids(shortstatehash), send_pdu_room and the RoomState answer
join_respond(t) ==
    LET c == join_task[t] IN
    /\ c.pc = "respond"
    /\ join_task' = [join_task EXCEPT ![t].pc = "done",
          ![t].response = [ok |-> TRUE,
                           state |-> join_state_full_ids(join_response_shortstatehash(c))]]
    /\ UNCHANGED <<statehash_state, roomid_shortstatehash, pdu_shortstatehash,
                   roomid_mutex_federation>>

(***************************************************************************)
(* The (room, token) -> shortstatehash index written by /sync              *)
(* (api/client_server/sync.rs load_joined_room), with several users and    *)
(* devices syncing the room "!r" while state events are appended to it.    *)
(***************************************************************************)
TokenClients == {"y1", "y2"}
TokenRoom == <<33, 114>>

VARIABLES
    token_task,  \* per /sync call: position, next_batch, the state hash it read
    token_log    \* the (next_batch, state hash) of every response computed
tokenVars == <<token_task, token_log>>

IdleToken == [pc |-> "idle", next_batch |-> 0, current_shortstatehash |-> 0]

\* a state event of the room is appended: a fresh count, and the state
\* after the event becomes the room's current state
token_append ==
    /\ count_now < MaxTokenCount
    /\ global' = next_count(global).tree
    /\ statehash_state' =
          Append(statehash_state,
                 join_state_full_ids(roomid_shortstatehash[TokenRoom])
                    \cup {<<36>> \o to_be_bytes(next_count(global).ret[1])})
    /\ roomid_shortstatehash' =
          [roomid_shortstatehash EXCEPT ![TokenRoom] = Len(statehash_state) + 1]
    /\ UNCHANGED <<roomsynctoken_shortstatehash, token_task, token_log>>

\* sync_events: next_batch is the current count
token_sync(y) ==
    /\ token_task[y].pc = "idle"
    /\ token_task' = [token_task EXCEPT ![y] =
          [IdleToken EXCEPT !.pc = "room", !.next_batch = current_count(global)[1]]]
    /\ UNCHANGED <<global, statehash_state, roomid_shortstatehash,
                   roomsynctoken_shortstatehash, token_log>>

\* load_joined_room: the room's current shortstatehash, against which the
\* state section of the response is computed
token_current_shortstatehash(y) ==
    /\ token_task[y].pc = "room"
    /\ get_room_shortstatehash(TokenRoom) # None
    /\ token_task' = [token_task EXCEPT ![y].pc = "associate",
          ![y].current_shortstatehash = get_room_shortstatehash(TokenRoom)[1]]
    /\ UNCHANGED <<global, statehash_state, roomid_shortstatehash,
                   roomsynctoken_shortstatehash, token_log>>

\* load_joined_room: associate_token_shortstatehash(room_id, next_batch,
\* current_shortstatehash), and the response
token_associate(y) ==
    LET c == token_task[y] IN
    /\ c.pc = "associate"
    /\ roomsynctoken_shortstatehash' = associate_token_shortstatehash(
          roomsynctoken_shortstatehash, TokenRoom, c.next_batch, c.current_shortstatehash)
    /\ token_log' = token_log \cup {<<c.next_batch, c.current_shortstatehash>>}
    /\ token_task' = [token_task EXCEPT ![y] = IdleToken]
    /\ UNCHANGED <<global, statehash_state, roomid_shortstatehash>>

(***************************************************************************)
(* Two createRoom requests at once (api/client_server/room.rs              *)
(* create_room_route): the room id, the alias check and set_alias.         *)
(***************************************************************************)
RivalTasks == {"k1", "k2"}
\* RoomId::new of each request: "!u" and "!v"; the custom room id "!c"
RandomRoomId == [k1 |-> <<33, 117>>, k2 |-> <<33, 118>>]
CustomRoomId == <<33, 99>>
\* room_id (custom or none) and room_alias_name ("w", "y" or none)
RivalBodies == [room_id : {None, Some(CustomRoomId)},
                room_alias_name : {None, Some(<<119>>), Some(<<121>>)}]

VARIABLES rival_task  \* per request: position, body, room id, alias, result
rivalVars == <<rival_task>>

IdleRival == [pc |-> "idle", body |-> <<>>, room_id |-> <<>>, alias |-> None,
              result |-> ""]
rival_done(t, result) ==
    rival_task' = [rival_task EXCEPT ![t].pc = "done", ![t].result = result]

\* the room id of the request; RoomInUse when its short id exists
rival_start(t, body) ==
    LET room_id == IF body.room_id # None THEN body.room_id[1] ELSE RandomRoomId[t] IN
    /\ rival_task[t].pc = "idle"
    /\ rival_task' = [rival_task EXCEPT ![t] =
          IF get_shortroomid(roomid_shortroomid, room_id) # Ok(None)
          THEN [IdleRival EXCEPT !.pc = "done", !.body = body, !.room_id = room_id,
                                 !.result = "RoomInUse"]
          ELSE [IdleRival EXCEPT !.pc = "shortroomid", !.body = body, !.room_id = room_id]]
    /\ UNCHANGED <<global, roomid_shortroomid, roomid_mutex_state, room_pdus, alias_roomid>>

\* get_or_create_shortroomid
rival_shortroomid(t) ==
    LET c == rival_task[t] IN
    /\ c.pc = "shortroomid"
    /\ IF get_shortroomid(roomid_shortroomid, c.room_id) # Ok(None)
       THEN UNCHANGED <<global, roomid_shortroomid>>
       ELSE /\ global' = next_count(global).tree
            /\ roomid_shortroomid' = tree_insert(roomid_shortroomid, c.room_id,
                                                 to_be_bytes(next_count(global).ret[1]))
    /\ rival_task' = [rival_task EXCEPT ![t].pc = "lock"]
    /\ UNCHANGED <<roomid_mutex_state, room_pdus, alias_roomid>>

\* the state mutex of the room
rival_lock(t) ==
    LET c == rival_task[t] IN
    /\ c.pc = "lock"
    /\ state_mutex_of(c.room_id) = Free
    /\ roomid_mutex_state' = state_mutex_set(c.room_id, t)
    /\ rival_task' = [rival_task EXCEPT ![t].pc = "checks"]
    /\ UNCHANGED <<global, roomid_shortroomid, room_pdus, alias_roomid>>

\* room_alias_check; an error leaves the route and drops the guard
rival_checks(t) ==
    LET c == rival_task[t]
        checked == IF c.body.room_alias_name = None THEN [err |-> ""]
                   ELSE room_alias_check(c.body.room_alias_name[1], None, alias_roomid) IN
    /\ c.pc = "checks"
    /\ IF checked.err # ""
       THEN /\ rival_done(t, checked.err)
            /\ roomid_mutex_state' = unlocked(t)
       ELSE /\ rival_task' = [rival_task EXCEPT ![t].pc = "append",
                  ![t].alias = IF c.body.room_alias_name = None THEN None
                               ELSE Some(checked.alias)]
            /\ UNCHANGED roomid_mutex_state
    /\ UNCHANGED <<global, roomid_shortroomid, room_pdus, alias_roomid>>

\* the events of the room up to drop(state_lock): the create event is
\* rejected when the room has events already
rival_append(t) ==
    LET c == rival_task[t]
        created == append_pdu(room_pdus, c.room_id, "m.room.create",
                              [creator |-> Some(SyncUser), room_version |-> 10,
                               predecessor |-> None])
    IN
    /\ c.pc = "append"
    /\ IF pdus_of(room_pdus, c.room_id) # <<>>
       THEN /\ rival_done(t, "Forbidden")
            /\ UNCHANGED room_pdus
       ELSE /\ room_pdus' =
                  IF c.alias = None THEN created
                  ELSE append_pdu(created, c.room_id, "m.room.canonical_alias",
                                  [alias |-> c.alias[1]])
            /\ rival_task' = [rival_task EXCEPT ![t].pc = "set_alias"]
    /\ roomid_mutex_state' = unlocked(t)
    /\ UNCHANGED <<global, roomid_shortroomid, alias_roomid>>

\* set_alias(alias, room_id) and the response
rival_set_alias(t) ==
    LET c == rival_task[t] IN
    /\ c.pc = "set_alias"
    /\ alias_roomid' = IF c.alias = None THEN alias_roomid
                       ELSE set_alias(alias_roomid, c.alias[1], c.room_id)
    /\ rival_done(t, "Ok")
    /\ UNCHANGED <<global, roomid_shortroomid, roomid_mutex_state, room_pdus>>

(***************************************************************************)
(* The EDUs of a federation transaction (api/server_server.rs              *)
(* send_transaction_message_route) and the per-user data they write.       *)
(***************************************************************************)
\* "@a:o" of server o and "@b:p" of server p
RemoteUsers == {<<64, 97, 58, 111>>, <<64, 98, 58, 112>>}
\* the local user "@u:s" and its devices "d" and "e"
LocalUser == <<64, 117, 58, 115>>
all_device_ids(user_id) == IF user_id = LocalUser THEN <<<<100>>, <<101>>>> ELSE <<>>
AllDevices == <<42>>
\* UserId::server_name
user_server_name(user_id) == SubSeq(user_id, colon_at(user_id) + 1, Len(user_id))
\* the messages of a direct-to-device EDU, in the order of its maps: one for
\* device "d", one for "d" and one for "e" that does not deserialize, one for
\* all devices
ToDeviceMessages ==
    {<<[target |-> LocalUser, device |-> <<100>>, valid |-> TRUE]>>,
     <<[target |-> LocalUser, device |-> <<100>>, valid |-> TRUE],
       [target |-> LocalUser, device |-> <<101>>, valid |-> FALSE]>>,
     <<[target |-> LocalUser, device |-> AllDevices, valid |-> TRUE]>>}
Edus ==
    [kind : {"m.presence", "m.typing", "m.device_list_update", "m.signing_key_update"},
     user_id : RemoteUsers]
    \cup [kind : {"m.direct_to_device"}, user_id : RemoteUsers, message_id : {"m1"},
          messages : ToDeviceMessages]
EduBodies == UNION {[1..n -> Edus] : n \in 1..MaxEdus}

VARIABLES
    userid_presence,      \* the users whose presence was set
    typing_userids,       \* the users typing
    keychangeid_userid,   \* the users marked with a device list change
    userid_masterkeyid,   \* the users with cross-signing keys
    todevice_inbox,       \* (user, device) -> the to-device messages queued, in order
    userdevicetxnid,      \* the (sender, message_id) saved as transaction ids
    edu_task,             \* the transaction: position, origin, EDUs, configuration
    edu_received          \* the number of transactions received
eduVars == <<userid_presence, typing_userids, keychangeid_userid, userid_masterkeyid,
             todevice_inbox, userdevicetxnid, edu_task, edu_received>>

IdleEdu == [pc |-> "idle", origin |-> <<>>, edus |-> <<>>, i |-> 0, allow |-> FALSE,
            ok |-> FALSE]
\* existing_txnid(sender, None, message_id)
existing_txnid(sender, message_id) ==
    IF <<sender, message_id>> \in userdevicetxnid THEN Some(<<>>) ELSE None
\* the devices a message is addressed to
target_devices(message) ==
    IF message.device = AllDevices THEN all_device_ids(message.target)
    ELSE <<message.device>>
\* add_to_device_event for each of the devices
RECURSIVE add_to_device_events(_, _, _, _)
add_to_device_events(inbox, target, devices, event) ==
    IF devices = <<>> THEN inbox
    ELSE add_to_device_events(
            [inbox EXCEPT ![<<target, Head(devices)>>] = Append(@, event)],
            target, Tail(devices), event)
\* the loops over the messages of a direct-to-device EDU: the inbox reached
\* and whether a message that does not deserialize ended them with `?`
RECURSIVE deliver_messages(_, _, _, _, _)
deliver_messages(inbox, sender, message_id, messages, n) ==
    IF n > Len(messages) THEN [inbox |-> inbox, failed |-> FALSE]
    ELSE IF ~messages[n].valid /\ target_devices(messages[n]) # <<>>
    THEN [inbox |-> inbox, failed |-> TRUE]
    ELSE deliver_messages(
            add_to_device_events(inbox, messages[n].target, target_devices(messages[n]),
                                 [sender |-> sender, message_id |-> message_id, n |-> n]),
            sender, message_id, messages, n + 1)
\* the test of the signing key update: the user must be of the origin
is_of_origin(user_id, origin) == user_server_name(user_id) = origin

\* PUT /send/{txnId}: the PDUs are handled, the EDUs are next
edu_receive(origin, edus, allow) ==
    /\ edu_task.pc = "idle"
    /\ edu_received < MaxEduReceived
    /\ edu_received' = edu_received + 1
    /\ edu_task' = [IdleEdu EXCEPT !.pc = "edus", !.origin = origin, !.edus = edus,
                                   !.i = 1, !.allow = allow]
    /\ UNCHANGED <<userid_presence, typing_userids, keychangeid_userid, userid_masterkeyid,
                   todevice_inbox, userdevicetxnid>>

\* one turn of the loop over the EDUs
edu_handle ==
    LET c == edu_task
        edu == c.edus[c.i]
        next == IF c.i = Len(c.edus) THEN [c EXCEPT !.pc = "done", !.ok = TRUE]
                ELSE [c EXCEPT !.i = c.i + 1]
        delivered == deliver_messages(todevice_inbox, edu.user_id, edu.message_id,
                                      edu.messages, 1)
    IN
    /\ c.pc = "edus"
    /\ userid_presence' =
          IF edu.kind = "m.presence" /\ c.allow THEN userid_presence \cup {edu.user_id}
          ELSE userid_presence
    /\ typing_userids' =
          IF edu.kind = "m.typing" /\ c.allow THEN typing_userids \cup {edu.user_id}
          ELSE typing_userids
    /\ keychangeid_userid' =
          IF edu.kind = "m.device_list_update" THEN keychangeid_userid \cup {edu.user_id}
          ELSE keychangeid_userid
    /\ userid_masterkeyid' =
          IF edu.kind = "m.signing_key_update" /\ is_of_origin(edu.user_id, c.origin)
          THEN userid_masterkeyid \cup {edu.user_id} ELSE userid_masterkeyid
    /\ IF edu.kind = "m.direct_to_device" /\ existing_txnid(edu.user_id, edu.message_id) = None
       THEN /\ todevice_inbox' = delivered.inbox
            /\ userdevicetxnid' = IF delivered.failed THEN userdevicetxnid
                                  ELSE userdevicetxnid \cup {<<edu.user_id, edu.message_id>>}
            /\ edu_task' = IF delivered.failed THEN [c EXCEPT !.pc = "done", !.ok = FALSE]
                           ELSE next
       ELSE /\ UNCHANGED <<todevice_inbox, userdevicetxnid>>
            /\ edu_task' = next
    /\ UNCHANGED edu_received

\* the response is sent
edu_finish ==
    /\ edu_task.pc = "done"
    /\ edu_task' = IdleEdu
    /\ UNCHANGED <<userid_presence, typing_userids, keychangeid_userid, userid_masterkeyid,
                   todevice_inbox, userdevicetxnid, edu_received>>

(***************************************************************************)
(* Registering and unregistering appservices (service/appservice/mod.rs,   *)
(* service/appservice/data.rs): the cache and the database tree.           *)
(***************************************************************************)
AppserviceTasks == {"p1", "p2"}
\* the registrations offered: two ids, each with one of two tokens
Registrations == [id : {"as1", "as2"}, as_token : {"t1", "t2"}]

VARIABLES
    registration_cache,         \* Service.registration_info: id -> RegistrationInfo
    id_appserviceregistrations, \* the database tree: id -> registration
    appservice_task             \* per call: position, operation, argument, result
appserviceVars == <<registration_cache, id_appserviceregistrations, appservice_task>>

IdleAppservice == [pc |-> "idle", op |-> "none", yaml |-> <<>>, result |-> ""]
\* Data::iter_ids and all: the registrations of the tree
db_iter_ids(tree) == DOMAIN tree
\* Service::build: the cache is filled from the database
build_cache(tree) == [id \in db_iter_ids(tree) |-> [registration |-> tree[id]]]

\* register_appservice: registration_info.write().await.insert(id, info)
register_cache(t, yaml) ==
    /\ appservice_task[t].pc = "idle"
    /\ registration_cache' = tree_insert(registration_cache, yaml.id, [registration |-> yaml])
    /\ appservice_task' = [appservice_task EXCEPT ![t] =
          [IdleAppservice EXCEPT !.pc = "db", !.op = "register", !.yaml = yaml]]
    /\ UNCHANGED id_appserviceregistrations
\* register_appservice: db.register_appservice(&yaml)
register_db(t) ==
    LET c == appservice_task[t] IN
    /\ c.pc = "db" /\ c.op = "register"
    /\ id_appserviceregistrations' = tree_insert(id_appserviceregistrations, c.yaml.id, c.yaml)
    /\ appservice_task' = [appservice_task EXCEPT ![t].pc = "done", ![t].result = "Ok"]
    /\ UNCHANGED registration_cache

\* unregister_appservice: registration_info.write().await.remove(name), an
\* error when the cache does not have it
unregister_cache(t, service_name) ==
    /\ appservice_task[t].pc = "idle"
    /\ IF service_name \in DOMAIN registration_cache
       THEN /\ registration_cache' =
                  [id \in DOMAIN registration_cache \ {service_name} |-> registration_cache[id]]
            /\ appservice_task' = [appservice_task EXCEPT ![t] =
                  [IdleAppservice EXCEPT !.pc = "db", !.op = "unregister",
                                         !.yaml = [id |-> service_name]]]
       ELSE /\ UNCHANGED registration_cache
            /\ appservice_task' = [appservice_task EXCEPT ![t] =
                  [IdleAppservice EXCEPT !.pc = "done", !.op = "unregister",
                                         !.yaml = [id |-> service_name],
                                         !.result = "Appservice not found"]]
    /\ UNCHANGED id_appserviceregistrations
\* unregister_appservice: db.unregister_appservice(name) and cleanup_events
unregister_db(t) ==
    LET c == appservice_task[t] IN
    /\ c.pc = "db" /\ c.op = "unregister"
    /\ id_appserviceregistrations' =
          [id \in DOMAIN id_appserviceregistrations \ {c.yaml.id} |->
              id_appserviceregistrations[id]]
    /\ appservice_task' = [appservice_task EXCEPT ![t].pc = "done", ![t].result = "Ok"]
    /\ UNCHANGED registration_cache

\* the call returns
appservice_return(t) ==
    /\ appservice_task[t].pc = "done"
    /\ appservice_task' = [appservice_task EXCEPT ![t] = IdleAppservice]
    /\ UNCHANGED <<registration_cache, id_appserviceregistrations>>

(***************************************************************************)
(* get_missing_events (api/server_server.rs get_missing_events_route): a   *)
(* walk from latest_events along prev_events.                              *)
(***************************************************************************)
\* the events "$1" .. "$4" that are stored, and "$5" that is not
StoredEventIds == {<<36, 49>>, <<36, 50>>, <<36, 51>>, <<36, 52>>}
UnknownEventId == <<36, 53>>
\* the stored graphs: prev_events of each event, older events first
EventGraphs ==
    {[e \in StoredEventIds |->
         CASE e = <<36, 49>> -> <<>>
           [] e = <<36, 50>> -> <<<<36, 49>>>>
           [] e = <<36, 51>> -> third
           [] e = <<36, 52>> -> fourth] :
        third \in {<<<<36, 49>>>>, <<<<36, 50>>>>},
        fourth \in {<<<<36, 50>>, <<36, 51>>>>, <<<<36, 51>>>>, <<<<36, 51>>, UnknownEventId>>}}
MissingRequests ==
    [latest_events : UNION {[1..n -> StoredEventIds \cup {UnknownEventId}] : n \in 1..2},
     earliest_events : {{}, {<<36, 49>>}, {<<36, 50>>}},
     limit : 0..MaxLimit,
     room_id : RoomIds]

VARIABLES
    missing_task   \* the request, the stored events and the loop's variables
missingVars == <<missing_task>>

IdleMissing == [pc |-> "idle", body |-> <<>>, prev_events |-> <<>>, other_room |-> {},
                hidden |-> {}, queued_events |-> <<>>, events |-> <<>>, i |-> 0,
                result |-> ""]
\* get_pdu_json: the event with its room id and prev_events, if stored
get_pdu_json(c, event_id) ==
    IF event_id \in DOMAIN c.prev_events
    THEN Some([event_id |-> event_id,
               room_id |-> IF event_id \in c.other_room THEN <<33, 115>> ELSE <<33, 114>>,
               prev_events |-> c.prev_events[event_id]])
    ELSE None
server_can_see_event(c, event_id) == event_id \notin c.hidden
loop_condition(c) == c.i < Len(c.queued_events) /\ Len(c.events) < c.body.limit

\* the request arrives: server_in_room and acl_check, then the queue is
\* latest_events and i = 0
missing_start(body, graph, other_room, hidden, in_room) ==
    /\ missing_task.pc = "idle"
    /\ missing_task' =
          IF ~in_room THEN [IdleMissing EXCEPT !.pc = "done", !.body = body,
                                               !.result = "Forbidden"]
          ELSE [IdleMissing EXCEPT !.pc = "loop", !.body = body, !.prev_events = graph,
                                   !.other_room = other_room, !.hidden = hidden,
                                   !.queued_events = body.latest_events]

\* one turn of the while loop, or its end
missing_turn ==
    LET c == missing_task
        event_id == c.queued_events[c.i + 1]
        pdu == get_pdu_json(c, event_id)
        skip == [c EXCEPT !.i = c.i + 1]
    IN
    /\ c.pc = "loop"
    /\ missing_task' =
          IF ~loop_condition(c) THEN [c EXCEPT !.pc = "done", !.result = "Ok"]
          ELSE IF pdu = None THEN skip
          ELSE IF pdu[1].room_id # c.body.room_id
          THEN [c EXCEPT !.pc = "done", !.result = "InvalidParam", !.events = <<>>]
          ELSE IF event_id \in c.body.earliest_events THEN skip
          ELSE IF ~server_can_see_event(c, event_id) THEN skip
          ELSE [c EXCEPT !.queued_events = c.queued_events \o pdu[1].prev_events,
                         !.events = Append(c.events, event_id),
                         !.i = c.i + 1]

\* the response is sent
missing_return ==
    /\ missing_task.pc = "done"
    /\ missing_task' = IdleMissing

(***************************************************************************)
(* The room lists of sliding sync (api/client_server/sync.rs               *)
(* sync_events_v4_route): each requested range is clamped to the joined    *)
(* rooms and answered with the rooms at its indices.                       *)
(***************************************************************************)
\* the rooms a user may have joined, in the order of rooms_joined
JoinedRoomLists == {[j \in 1..n |-> <<33, 96 + j>>] : n \in 0..MaxJoinedRooms}
SlideRanges == (0..MaxRangeIndex) \X (0..MaxRangeIndex)
SlideLists == [ranges : UNION {[1..n -> SlideRanges] : n \in 0..2}, is_invite : BOOLEAN]
Panic == [panic |-> TRUE]

VARIABLES slide_task  \* the request, the joined rooms and the list of the response
slideVars == <<slide_task>>

IdleSlide == [pc |-> "idle", all_joined_rooms |-> <<>>, list |-> <<>>, ops |-> <<>>,
              result |-> ""]
\* usize::saturating_sub
saturating_sub(a, b) == IF a >= b THEN a - b ELSE 0
\* Ord::clamp, which panics when min > max
clamp(value, min, max_value) ==
    IF min > max_value THEN Panic
    ELSE IF value < min THEN [panic |-> FALSE, value |-> min]
    ELSE IF value > max_value THEN [panic |-> FALSE, value |-> max_value]
    ELSE [panic |-> FALSE, value |-> value]
\* slice[start..=end] with start and end counted from 0, which panics when
\* end is not an index of the slice or start > end + 1
slice_inclusive(slice, start, end) ==
    IF end >= Len(slice) \/ start > end + 1 THEN Panic
    ELSE [panic |-> FALSE, value |-> SubSeq(slice, start + 1, end + 1)]
\* the SyncOp of one range
sync_op(all_joined_rooms, r) ==
    LET last == saturating_sub(Len(all_joined_rooms), 1)
        r0 == clamp(r[1], 0, last)
        r1 == IF r0.panic THEN Panic ELSE clamp(r[2], r0.value, last)
        room_ids == IF r1.panic THEN Panic
                    ELSE slice_inclusive(all_joined_rooms, r0.value, r1.value)
    IN  IF room_ids.panic THEN Panic
        ELSE [panic |-> FALSE, range |-> <<r0.value, r1.value>>, room_ids |-> room_ids.value]

\* the list of a sliding-sync request is answered, or the handler panics
slide_list(all_joined_rooms, list) ==
    LET ops == [j \in DOMAIN list.ranges |-> sync_op(all_joined_rooms, list.ranges[j])] IN
    /\ slide_task.pc = "idle"
    /\ slide_task' =
          IF list.is_invite
          THEN [IdleSlide EXCEPT !.pc = "done", !.all_joined_rooms = all_joined_rooms,
                                 !.list = list, !.result = "skipped"]
          ELSE IF \E j \in DOMAIN ops : ops[j].panic
          THEN [IdleSlide EXCEPT !.pc = "done", !.all_joined_rooms = all_joined_rooms,
                                 !.list = list, !.result = "panic"]
          ELSE [IdleSlide EXCEPT !.pc = "done", !.all_joined_rooms = all_joined_rooms,
                                 !.list = list, !.ops = ops, !.result = "Ok"]

\* the response is sent
slide_return ==
    /\ slide_task.pc = "done"
    /\ slide_task' = IdleSlide

syncExtraVars == <<watchVars, windowVars, deviceVars, lazyVars, heroVars>>
lastVars == <<sanitiseVars, joinVars, tokenVars, rivalVars, eduVars, appserviceVars, missingVars, slideVars>>
sanitiseRest == <<joinVars, tokenVars, rivalVars, eduVars, appserviceVars, missingVars, slideVars>>
joinRest == <<sanitiseVars, tokenVars, rivalVars, eduVars, appserviceVars, missingVars, slideVars>>
tokenRest == <<sanitiseVars, joinVars, rivalVars, eduVars, appserviceVars, missingVars, slideVars>>
rivalRest == <<sanitiseVars, joinVars, tokenVars, eduVars, appserviceVars, missingVars, slideVars>>
eduRest == <<sanitiseVars, joinVars, tokenVars, rivalVars, appserviceVars, missingVars, slideVars>>
appserviceRest == <<sanitiseVars, joinVars, tokenVars, rivalVars, eduVars, missingVars, slideVars>>
missingRest == <<sanitiseVars, joinVars, tokenVars, rivalVars, eduVars, appserviceVars, slideVars>>
slideRest == <<sanitiseVars, joinVars, tokenVars, rivalVars, eduVars, appserviceVars, missingVars>>
tokenOthers == <<sanitiseVars, rivalVars, eduVars, appserviceVars, missingVars, slideVars>>
laterVars == <<firstVars, authVars, eventVars, keyVars, lastVars>>
moreVars == <<upgradeVars, createVars, laterVars>>
extraVars == <<syncExtraVars, moreVars>>
vars == <<global, shortVars, countVars, sendVars, fedVars, roomVars, syncVars, extraVars>>

InitShort ==
    /\ global = EmptyTree
    /\ eventid_shorteventid = EmptyTree
    /\ shorteventid_eventid = EmptyTree
    /\ statekey_shortstatekey = EmptyTree
    /\ shortstatekey_statekey = EmptyTree
    /\ roomid_shortroomid = EmptyTree
    /\ short_task = [t \in ShortTasks |-> IdleTask]
InitCount ==
    /\ count_task = [t \in CountTasks |-> IdleCount]
    /\ count_alloc = <<>>
    /\ count_log = <<>>
InitSendQueue ==
    /\ servernameevent_data = EmptyTree
    /\ servercurrentevent_data = EmptyTree
    /\ send_pdus = {}
    /\ send_worker = [d \in Destinations |-> IdleWorker]
    /\ queue_order = <<>>
    /\ send_pending = {}
InitFed ==
    /\ roomid_mutex_federation = [r \in RoomIds |-> Free]
    /\ fed_task = [q \in FedRequests |-> IdleFed]
InitRoom ==
    /\ roomid_mutex_state = [r \in ClientRoomIds |-> Free]
    /\ room_task = [t \in RoomTasks |-> IdleRoom]
InitSync ==
    /\ pduid_pdu = EmptyTree
    /\ roomid_mutex_insert = [r \in RoomIds |-> Free]
    /\ append_task = [w \in AppendTasks |-> IdleAppend]
    /\ sync_task = [c \in SyncClients |-> IdleSync]
    /\ sync_last = <<>>
    /\ sync_prev = <<>>
InitWatch ==
    /\ poll_task = [s \in PollClients |-> IdlePoll]
    /\ watchers = {}
InitWindow == joined_room = <<>>
InitDevice ==
    /\ todeviceid_events = EmptyTree
    /\ roomsynctoken_shortstatehash = EmptyTree
    /\ device_task = [s \in DeviceClients |-> IdleDevice]
    /\ device_last = <<>>
    /\ device_log = [sent |-> {}, removed |-> {}, returned |-> {}, disconnected |-> FALSE]
InitLazyOptions ==
    /\ lazy_load_waiting = <<>>
    /\ lazyloadedids = {}
    /\ lazy_filter \in LazyLoadOptions
    /\ lazy_tokens = {}
    /\ lazy_last = <<>>
    /\ lazy_sent = <<>>
    /\ lazy_confirmed = {}
InitNoLazy ==
    /\ shortstatehash_state = <<>>
    /\ lazy_load_waiting = <<>>
    /\ lazyloadedids = {}
    /\ lazy_filter = [lazy_load_enabled |-> FALSE, lazy_load_send_redundant |-> FALSE]
    /\ lazy_tokens = {}
    /\ lazy_last = <<>>
    /\ lazy_sent = <<>>
    /\ lazy_confirmed = {}
\* the syncing user has joined the room
InitHeroes ==
    /\ hero_pdus = <<member_pdu(SyncUser, "join")>>
    /\ hero_result = <<>>
InitNoUpgrade ==
    /\ room_pdus = <<>>
    /\ alias_roomid = <<>>
    /\ upgrade_task = [t \in UpgradeTasks |-> IdleUpgrade]
    /\ upgrade_count = 0
\* "!r" and "!s" were created, "#a" is an alias of "!r", "#b" of either room
InitUpgrade ==
    /\ \E old \in OldRooms :
          room_pdus = [r \in UpgradeRooms |->
              IF r = <<33, 114>> THEN old ELSE created_room(0, <<>>)]
    /\ \E room_id \in UpgradeRooms :
          alias_roomid = [a \in LocalAliases |-> IF a = <<35, 97>> THEN <<33, 114>> ELSE room_id]
    /\ upgrade_task = [t \in UpgradeTasks |-> IdleUpgrade]
    /\ upgrade_count = 0
InitNoCreate ==
    /\ create_task = [t \in CreateTasks |-> IdleCreate]
    /\ publicroomids = {}
\* "!r" and "!s" exist and "#v:s" is an alias of "!s"
InitCreate ==
    /\ room_pdus = [r \in UpgradeRooms |-> created_room(0, <<>>)]
    /\ alias_roomid = (full_alias(<<118>>) :> <<33, 115>>)
    /\ upgrade_task = [t \in UpgradeTasks |-> IdleUpgrade]
    /\ upgrade_count = 0
    /\ InitNoCreate
InitNoFirst == first_task = IdleFirst
InitNoAuth == auth_task = IdleAuth
InitNoEvent ==
    /\ event_joined = {}
    /\ event_visible = {}
    /\ event_task = IdleEvent
InitNoKey ==
    /\ server_signingkeys = [origin \in KeyOrigins |-> None]
    /\ key_task = [t \in KeyTasks |-> IdleKey]
InitNoSanitise ==
    sanitise_task = IdleSanitise
InitNoJoin ==
    /\ statehash_state = [j \in 1..Cardinality(RoomIds) |-> {}]
    /\ roomid_shortstatehash = (<<33, 114>> :> 1) @@ (<<33, 115>> :> 2)
    /\ pdu_shortstatehash = <<>>
    /\ join_task = [t \in JoinTasks |-> IdleJoin]
InitNoToken ==
    /\ token_task = [y \in TokenClients |-> IdleToken]
    /\ token_log = {}
InitNoRival ==
    rival_task = [t \in RivalTasks |-> IdleRival]
InitNoEdu ==
    /\ userid_presence = {}
    /\ typing_userids = {}
    /\ keychangeid_userid = {}
    /\ userid_masterkeyid = {}
    /\ todevice_inbox = [key \in {<<LocalUser, <<100>>>>, <<LocalUser, <<101>>>>} |-> <<>>]
    /\ userdevicetxnid = {}
    /\ edu_task = IdleEdu
    /\ edu_received = 0
InitNoAppservice ==
    /\ id_appserviceregistrations = <<>>
    /\ registration_cache = build_cache(id_appserviceregistrations)
    /\ appservice_task = [t \in AppserviceTasks |-> IdleAppservice]
InitNoMissing ==
    missing_task = IdleMissing
InitNoSlide ==
    slide_task = IdleSlide
InitLast == InitNoSanitise /\ InitNoJoin /\ InitNoToken /\ InitNoRival /\ InitNoEdu /\ InitNoAppservice /\ InitNoMissing /\ InitNoSlide
InitLater == InitNoFirst /\ InitNoAuth /\ InitNoEvent /\ InitNoKey /\ InitLast
InitMore == InitNoUpgrade /\ InitNoCreate /\ InitLater
InitExtra == InitWatch /\ InitWindow /\ InitDevice /\ InitNoLazy /\ InitHeroes
\* the empty database, no request in progress
Init == InitShort /\ InitCount /\ InitSendQueue /\ InitFed /\ InitRoom /\ InitSync /\ InitExtra /\ InitMore

\* the interner under concurrent callers
NextShort == (\E t \in ShortTasks : short_step(t)) /\ UNCHANGED <<countVars, sendVars, fedVars, roomVars, syncVars, extraVars>>
SpecShort == Init /\ [][NextShort]_vars

\* the interner with one call at a time
NextShortSeq ==
    \E t \in ShortTasks :
        /\ \A u \in ShortTasks \ {t} : short_task[u].pc = "idle"
        /\ short_step(t)
        /\ UNCHANGED <<countVars, sendVars, fedVars, roomVars, syncVars, extraVars>>
SpecShortSeq == Init /\ [][NextShortSeq]_vars

\* concurrent callers of next_count and current_count
NextCount ==
    /\ \E t \in CountTasks :
          \/ count_call(t)
          \/ next_count_call(t)
          \/ current_count_call(t)
          \/ count_return(t)
          \/ count_finish(t)
    /\ UNCHANGED <<shortVars, sendVars, fedVars, roomVars, syncVars, extraVars>>
SpecCount == Init /\ [][NextCount]_vars

\* the sending queue: two rooms exist, their short ids are 1 and 2
InitSendCore ==
    /\ global = tree_insert(EmptyTree, COUNTER, to_be_bytes(2))
    /\ roomid_shortroomid = [r \in RoomIds |-> to_be_bytes(IF r = <<33, 114>> THEN 1 ELSE 2)]
    /\ eventid_shorteventid = EmptyTree
    /\ shorteventid_eventid = EmptyTree
    /\ statekey_shortstatekey = EmptyTree
    /\ shortstatekey_statekey = EmptyTree
    /\ short_task = [t \in ShortTasks |-> IdleTask]
    /\ InitCount
    /\ InitSendQueue
    /\ InitFed
    /\ InitRoom
    /\ InitSync
    /\ InitExtra
InitSend == InitSendCore /\ InitMore
NextSend ==
    /\ \/ \E r \in RoomIds : send_append_pdu(r)
       \/ \E requests \in SendBatches : queue_requests(requests)
       \/ \E d \in Destinations, n \in 1..MaxSendCount : send_select(d, n)
       \/ \E d \in Destinations : mark_as_active(d)
       \/ \E d \in Destinations : send_stop(d)
       \/ \E key \in DOMAIN servercurrentevent_data : delete_active_request(key)
       \/ \E d \in Destinations : delete_all_active_requests_for(d)
    /\ UNCHANGED <<shortVars, countVars, fedVars, roomVars, syncVars, extraVars>>
SpecSend == InitSend /\ [][NextSend]_vars

\* concurrent federation requests
NextFed ==
    /\ \E q \in FedRequests :
          \/ fed_receive(q)
          \/ fed_lock(q)
          \/ fed_handle(q)
          \/ fed_unlock(q)
          \/ fed_edus(q)
          \/ fed_finish(q)
    /\ UNCHANGED <<global, shortVars, countVars, sendVars, roomVars, syncVars, extraVars>>
SpecFed == Init /\ [][NextFed]_vars

\* concurrent createRoom and upgrade requests
NextRoom ==
    /\ \E t \in RoomTasks :
          \/ create_room_route(t)
          \/ upgrade_room_route(t)
          \/ room_lock(t)
          \/ room_append(t)
          \/ room_skip(t)
          \/ room_fail(t)
          \/ room_drop(t)
    /\ UNCHANGED <<eventid_shorteventid, shorteventid_eventid, statekey_shortstatekey,
                   shortstatekey_statekey, short_task, countVars, sendVars, fedVars, syncVars, extraVars>>
SpecRoom == Init /\ [][NextRoom]_vars

\* /sync calls of one client, one after the other, with concurrent appends
\* to the rooms the client has joined
NextSync ==
    /\ \/ \E w \in AppendTasks :
             \/ append_lock(w)
             \/ append_count(w)
             \/ append_insert(w)
             \/ append_unlock(w)
       \/ \E s \in SyncClients :
             \/ sync_events_route(s)
             \/ sync_insert_lock(s)
             \/ sync_insert_drop(s)
             \/ sync_load_timeline(s)
             \/ sync_respond(s)
    /\ UNCHANGED <<shortVars, countVars, sendVars, fedVars, roomVars, extraVars>>
SpecSync == InitSend /\ [][NextSync]_vars

\* the long poll of one client with concurrent writes
NextWatch ==
    /\ \/ \E s \in PollClients :
             \/ poll_watcher(s)
             \/ poll_response(s)
             \/ poll_wait(s)
             \/ poll_tick(s)
             \/ poll_wake(s)
             \/ poll_timeout(s)
             \/ poll_return(s)
       \/ \E write \in WatchWrites : watch_write(write)
    /\ UNCHANGED <<global, shortVars, countVars, sendVars, fedVars, roomVars, syncVars, windowVars, deviceVars, lazyVars, heroVars, moreVars>>
SpecWatch == InitSend /\ [][NextWatch]_vars

\* the timeline window of a room while events are appended
NextWindow ==
    /\ \/ \E room_id \in RoomIds : window_append(room_id)
       \/ \E sincecount \in WindowSinces, since_is_current, since_sender_joined \in BOOLEAN :
             window_load(sincecount, since_is_current, since_sender_joined)
       \/ window_return
    /\ UNCHANGED <<shortVars, countVars, sendVars, fedVars, roomVars, roomid_mutex_insert,
                   append_task, sync_task, sync_last, sync_prev, watchVars, deviceVars, lazyVars,
                   heroVars, moreVars>>
SpecWindow == InitSend /\ [][NextWindow]_vars

\* the /sync calls of a device while to-device events are queued
NextDevice ==
    /\ \/ \E s \in DeviceClients : device_step(s)
       \/ \E device_id \in Devices : add_to_device_event(device_id)
    /\ UNCHANGED <<shortVars, countVars, sendVars, fedVars, roomVars, syncVars, watchVars,
                   windowVars, lazyVars, heroVars, moreVars>>
SpecDevice == InitSend /\ [][NextDevice]_vars

\* the room of the lazily loading device: "@a" has created and joined it
InitLazy ==
    /\ global = tree_insert(EmptyTree, COUNTER, to_be_bytes(3))
    /\ roomid_shortroomid = [r \in RoomIds |-> to_be_bytes(IF r = <<33, 114>> THEN 1 ELSE 2)]
    /\ eventid_shorteventid = EmptyTree
    /\ shorteventid_eventid = EmptyTree
    /\ statekey_shortstatekey = EmptyTree
    /\ shortstatekey_statekey = EmptyTree
    /\ short_task = [t \in ShortTasks |-> IdleTask]
    /\ InitCount
    /\ InitSendQueue
    /\ InitFed
    /\ InitRoom
    /\ pduid_pdu = tree_insert(EmptyTree, pdu_id(1, 3),
          [sender |-> UserA, kind |-> RoomMember, state_key |-> Some(UserA), membership |-> "join"])
    /\ roomid_mutex_insert = [r \in RoomIds |-> Free]
    /\ append_task = [w \in AppendTasks |-> IdleAppend]
    /\ sync_task = [c \in SyncClients |-> IdleSync]
    /\ sync_last = <<>>
    /\ sync_prev = <<>>
    /\ InitWatch
    /\ InitWindow
    /\ InitDevice
    /\ shortstatehash_state = <<[k \in {member_key(UserA)} |-> 3]>>
    /\ InitLazyOptions
    /\ InitHeroes
    /\ InitMore
\* the /sync calls of the device while events are appended to the room
NextLazy ==
    /\ \/ \E pdu \in LazyEvents : lazy_append(pdu)
       \/ \E token \in lazy_since_tokens, full_state \in LazyFullState,
             element_hacks \in ElementHacks :
             lazy_sync(token, full_state, element_hacks)
       \/ lazy_return
       \/ lazy_to_device
    /\ UNCHANGED <<shortVars, countVars, sendVars, fedVars, roomVars, roomid_mutex_insert,
                   append_task, sync_task, sync_last, sync_prev, watchVars, windowVars, heroVars, moreVars>>
SpecLazy == InitLazy /\ [][NextLazy]_vars

\* the summary of a room while its members come and go
NextHeroes ==
    /\ \/ \E membership \in {"join", "invite"} : hero_arrive(membership)
       \/ \E membership \in {"join", "invite", "leave"} : hero_change(membership)
       \/ hero_message
       \/ hero_calculate
       \/ hero_return
    /\ UNCHANGED <<global, shortVars, countVars, sendVars, fedVars, roomVars, syncVars, watchVars,
                   windowVars, deviceVars, lazyVars, moreVars>>
SpecHeroes == InitSend /\ [][NextHeroes]_vars

\* concurrent room upgrades, one request of each client
NextUpgrade ==
    /\ \E t \in UpgradeTasks :
          \/ \E room_id \in UpgradeRooms, new_version \in NewVersions,
                allow_unstable_room_versions \in BOOLEAN :
                upgrade_start(t, room_id, new_version, allow_unstable_room_versions)
          \/ upgrade_lock(t)
          \/ upgrade_tombstone(t)
          \/ upgrade_relock(t)
          \/ upgrade_create(t)
          \/ upgrade_join(t)
          \/ upgrade_transfer(t)
          \/ upgrade_aliases(t)
          \/ upgrade_power_levels(t)
          \/ upgrade_fail(t)
    /\ UNCHANGED <<eventid_shorteventid, shorteventid_eventid, statekey_shortstatekey,
                   shortstatekey_statekey, short_task, countVars, sendVars, fedVars, room_task,
                   syncVars, syncExtraVars, createVars, laterVars>>
InitUpgradeRooms == InitSendCore /\ InitUpgrade /\ InitNoCreate /\ InitLater
SpecUpgrade == InitUpgradeRooms /\ [][NextUpgrade]_vars
\* one createRoom request
NextCreate ==
    /\ \E t \in CreateTasks :
          \/ /\ create_task[t].pc = "idle"
             /\ \E body \in CreateBodies, allowed \in BOOLEAN, allow_encryption \in BOOLEAN :
                   create_start(t, body, allowed, allow_encryption)
          \/ create_lock(t)
          \/ create_checks(t)
          \/ create_append(t)
          \/ create_fail(t)
          \/ create_drop(t)
          \/ \E invited \in BOOLEAN : create_invite(t, invited)
          \/ create_finish(t)
    /\ UNCHANGED <<eventid_shorteventid, shorteventid_eventid, statekey_shortstatekey,
                   shortstatekey_statekey, short_task, countVars, sendVars, fedVars, room_task,
                   syncVars, syncExtraVars, upgrade_task, upgrade_count, laterVars>>
InitCreateRoom == InitSendCore /\ InitCreate /\ InitLater
SpecCreate == InitCreateRoom /\ [][NextCreate]_vars
\* no room exists; the device has one of the lazy loading filters
InitFirstSync ==
    /\ global = EmptyTree
    /\ roomid_shortroomid = EmptyTree
    /\ eventid_shorteventid = EmptyTree
    /\ shorteventid_eventid = EmptyTree
    /\ statekey_shortstatekey = EmptyTree
    /\ shortstatekey_statekey = EmptyTree
    /\ short_task = [t \in ShortTasks |-> IdleTask]
    /\ InitCount
    /\ InitSendQueue
    /\ InitFed
    /\ InitRoom
    /\ InitSync
    /\ InitWatch
    /\ InitWindow
    /\ InitDevice
    /\ shortstatehash_state = <<>>
    /\ InitLazyOptions
    /\ InitHeroes
    /\ InitNoUpgrade
    /\ InitNoCreate
    /\ InitLater
\* createRoom of the syncing user, then its messages and /sync calls
NextFirstSync ==
    /\ \/ /\ first_task.pc = "idle"
          /\ \E body \in FirstBodies : first_create(body)
       \/ first_append
       \/ first_created
       \/ first_send
       \/ \E token \in lazy_since_tokens, full_state \in LazyFullState,
             element_hacks \in ElementHacks :
             first_sync(token, full_state, element_hacks)
       \/ first_return
    /\ UNCHANGED <<eventid_shorteventid, shorteventid_eventid, statekey_shortstatekey,
                   shortstatekey_statekey, short_task, countVars, sendVars, fedVars, roomVars,
                   roomid_mutex_insert, append_task, sync_task, sync_last, sync_prev,
                   watchVars, windowVars, heroVars, upgradeVars, createVars, authVars, eventVars, keyVars, lastVars>>
SpecFirstSync == InitFirstSync /\ [][NextFirstSync]_vars
\* one request is authenticated
NextAuth ==
    /\ \/ /\ auth_task.pc = "idle"
          /\ \E request \in AuthRequests, allow_federation \in BOOLEAN,
                allow_public_room_directory_without_auth \in BOOLEAN :
                auth_start(request, allow_federation, allow_public_room_directory_without_auth)
       \/ auth_token
       \/ auth_scheme
       \/ /\ auth_task.pc = "fetch"
          /\ \E keys_result \in fetch_signing_keys_for_server(
                    auth_task.request.header.x_matrix.origin,
                    auth_task.request.header.x_matrix.key) : auth_server(keys_result)
    /\ UNCHANGED <<global, shortVars, countVars, sendVars, fedVars, roomVars, syncVars,
                   syncExtraVars, upgradeVars, createVars, firstVars, eventVars, keyVars, lastVars>>
SpecAuth == InitSend /\ [][NextAuth]_vars
\* the requests of one user for events while its memberships and what it
\* may see change
NextEvent ==
    /\ \/ \E room_id \in RoomIds : event_membership(room_id)
       \/ \E event_id \in DOMAIN RoomEvents : event_visibility(event_id)
       \/ \E room_id \in RoomIds, event_id \in RequestedEvents :
             get_room_event_route(room_id, event_id)
       \/ event_return
    /\ UNCHANGED <<global, shortVars, countVars, sendVars, fedVars, roomVars, syncVars,
                   syncExtraVars, upgradeVars, createVars, firstVars, authVars, keyVars, lastVars>>
SpecEvent == InitSend /\ [][NextEvent]_vars
\* the key store at the start
InitKey ==
    /\ server_signingkeys \in [KeyOrigins -> StoredKeys]
    /\ key_task = [t \in KeyTasks |-> IdleKey]
\* two callers of add_signing_key
NextKey ==
    /\ \E t \in KeyTasks :
          \/ \E origin \in KeyOrigins, new_keys \in NewKeys : key_start(t, origin, new_keys)
          \/ key_get(t)
          \/ key_insert(t)
          \/ key_return(t)
    /\ UNCHANGED <<global, shortVars, countVars, sendVars, fedVars, roomVars, syncVars,
                   syncExtraVars, upgradeVars, createVars, firstVars, authVars, eventVars, lastVars>>
InitKeyStore == InitSendCore /\ InitNoUpgrade /\ InitNoCreate /\ InitNoFirst /\ InitNoAuth
                /\ InitNoEvent /\ InitKey /\ InitLast
SpecKey == InitKeyStore /\ [][NextKey]_vars
\* one file name is sanitised
NextSanitise ==
    /\ sanitise_task.pc = "idle"
    /\ \/ \E filename \in FileNames, windows \in BOOLEAN : sanitise_call(filename, windows)
       \/ \E filename \in FileNames, windows \in BOOLEAN,
             disposition_type \in {ATTACHMENT, INLINE}, requested \in BOOLEAN,
             prefix \in {<<>>, INLINE \o <<59, 32>>} :
             disposition_call(filename, windows, disposition_type, requested, prefix)
    /\ UNCHANGED <<global, shortVars, countVars, sendVars, fedVars, roomVars, syncVars,
                   syncExtraVars, upgradeVars, createVars, firstVars, authVars, eventVars,
                   keyVars, sanitiseRest>>
SpecSanitise == InitSend /\ [][NextSanitise]_vars
\* send_join requests and transactions for the rooms
NextJoin ==
    /\ \/ \E t \in JoinTasks, kind \in JoinKinds, room_id \in RoomIds, accepted \in BOOLEAN :
             join_start(t, kind, room_id, accepted)
       \/ \E t \in JoinTasks, keys_fetched \in BOOLEAN : join_lock(t, keys_fetched)
       \/ \E t \in JoinTasks, accepted \in BOOLEAN : join_handle(t, accepted)
       \/ \E t \in JoinTasks : join_unlock(t)
       \/ \E t \in JoinTasks : join_respond(t)
    /\ UNCHANGED <<global, shortVars, countVars, sendVars, fed_task, roomVars, syncVars,
                   syncExtraVars, upgradeVars, createVars, firstVars, authVars, eventVars,
                   keyVars, joinRest>>
SpecJoin == InitSend /\ [][NextJoin]_vars
\* /sync calls of the room next to appended state events
NextToken ==
    /\ \/ token_append
       \/ \E y \in TokenClients : token_sync(y)
       \/ \E y \in TokenClients : token_current_shortstatehash(y)
       \/ \E y \in TokenClients : token_associate(y)
    /\ UNCHANGED <<shortVars, countVars, sendVars, fedVars, roomVars, syncVars,
                   watchVars, windowVars, lazyVars, heroVars,
                   todeviceid_events, device_task, device_last, device_log,
                   upgradeVars, createVars, firstVars, authVars, eventVars, keyVars,
                   tokenOthers, pdu_shortstatehash, join_task>>
SpecToken == InitSend /\ [][NextToken]_vars
\* two createRoom requests
NextRival ==
    /\ \/ \E t \in RivalTasks, body \in RivalBodies : rival_start(t, body)
       \/ \E t \in RivalTasks : rival_shortroomid(t)
       \/ \E t \in RivalTasks : rival_lock(t)
       \/ \E t \in RivalTasks : rival_checks(t)
       \/ \E t \in RivalTasks : rival_append(t)
       \/ \E t \in RivalTasks : rival_set_alias(t)
    /\ UNCHANGED <<eventid_shorteventid, shorteventid_eventid, statekey_shortstatekey,
                   shortstatekey_statekey, short_task, countVars, sendVars, fedVars,
                   room_task, syncVars, syncExtraVars, upgrade_task, upgrade_count,
                   createVars, firstVars, authVars, eventVars, keyVars, rivalRest>>
SpecRival == InitSend /\ [][NextRival]_vars
\* transactions with EDUs, one after the other
NextEdu ==
    /\ \/ /\ edu_task.pc = "idle"
          /\ \E origin \in {OriginO, OriginP}, edus \in EduBodies, allow \in BOOLEAN :
                edu_receive(origin, edus, allow)
       \/ edu_handle
       \/ edu_finish
    /\ UNCHANGED <<global, shortVars, countVars, sendVars, fedVars, roomVars, syncVars,
                   syncExtraVars, upgradeVars, createVars, firstVars, authVars, eventVars,
                   keyVars, eduRest>>
SpecEdu == InitSend /\ [][NextEdu]_vars
\* register_appservice and unregister_appservice calls
NextAppservice ==
    /\ \/ \E t \in AppserviceTasks, yaml \in Registrations : register_cache(t, yaml)
       \/ \E t \in AppserviceTasks : register_db(t)
       \/ \E t \in AppserviceTasks, service_name \in {"as1", "as2"} :
             unregister_cache(t, service_name)
       \/ \E t \in AppserviceTasks : unregister_db(t)
       \/ \E t \in AppserviceTasks : appservice_return(t)
    /\ UNCHANGED <<global, shortVars, countVars, sendVars, fedVars, roomVars, syncVars,
                   syncExtraVars, upgradeVars, createVars, firstVars, authVars, eventVars,
                   keyVars, appserviceRest>>
SpecAppservice == InitSend /\ [][NextAppservice]_vars
\* get_missing_events requests
NextMissing ==
    /\ \/ /\ missing_task.pc = "idle"
          /\ \E body \in MissingRequests, graph \in EventGraphs,
                other_room \in {{}, {<<36, 49>>}}, hidden \in {{}, {<<36, 51>>}},
                in_room \in BOOLEAN :
                missing_start(body, graph, other_room, hidden, in_room)
       \/ missing_turn
       \/ missing_return
    /\ UNCHANGED <<global, shortVars, countVars, sendVars, fedVars, roomVars, syncVars,
                   syncExtraVars, upgradeVars, createVars, firstVars, authVars, eventVars,
                   keyVars, missingRest>>
SpecMissing == InitSend /\ [][NextMissing]_vars
\* sliding-sync requests with one list
NextSlide ==
    /\ \/ /\ slide_task.pc = "idle"
          /\ \E all_joined_rooms \in JoinedRoomLists, list \in SlideLists :
                slide_list(all_joined_rooms, list)
       \/ slide_return
    /\ UNCHANGED <<global, shortVars, countVars, sendVars, fedVars, roomVars, syncVars,
                   syncExtraVars, upgradeVars, createVars, firstVars, authVars, eventVars,
                   keyVars, slideRest>>
SpecSlide == InitSend /\ [][NextSlide]_vars


C16_ToDeviceDelivered ==
    /\ device_log.removed \subseteq device_log.returned
    /\ device_last # <<>> =>
          \A count \in device_last[1].sent_before_read :
              count > device_last[1].since => count \in seq_range(device_last[1].events)

\* an event was removed after the device got it, and the last response
\* carries an event again that an earlier one carried
C16_Witness ==
    /\ device_log.removed # {}
    /\ device_last # <<>>
    /\ \E s \in DeviceClients :
          /\ device_task[s].pc = "return"
          /\ seq_range(device_task[s].events) \cap seq_range(device_last[1].events) # {}

(***************************************************************************)
(* Properties of the state section and of lazy loading.                    *)
(***************************************************************************)
lazy_on == lazy_filter.lazy_load_enabled
\* the senders of the events in the timeline of response r
window_senders(r) == {pdu_of(r.timeline[j]).sender : j \in DOMAIN r.timeline}
\* the events of the room state the response was built from
state_of(r) == {state_full_ids(r.shortstatehash)[key] : key \in DOMAIN state_full_ids(r.shortstatehash)}
\* the member event of user_id was event in the state at since and still is
unchanged_member(r, user_id, event) ==
    /\ state_get(r.shortstatehash, member_key(user_id)) = Some(event)
    /\ state_get(r.since_shortstatehash[1], member_key(user_id)) = Some(event)

C18_StateSection ==
    (lazy_last # <<>> /\ lazy_on) =>
        LET r == lazy_last[1] IN
        (r.branch \in {"initial", "incremental"} /\ ~r.full_state) =>
            r.state_events = {e \in state_of(r) :
                                 \/ pdu_of(e).kind # RoomMember
                                 \/ pdu_of(e).state_key[1] \in window_senders(r)}

\* C18 amended: that is the state section of an initial sync of the room (no
\* state saved for since, or the user joined after since), where a build with
\* element_hacks adds the member event of the syncing user; an incremental
\* sync has the state events that differ from the state at since, and beyond
\* them only member events of senders in the window.
C18_InitialStateSection ==
    (lazy_last # <<>> /\ lazy_on) =>
        LET r == lazy_last[1] IN
        /\ (r.branch = "initial" /\ ~r.full_state) =>
              \E element_hacks \in ElementHacks :
                  r.state_events = {e \in state_of(r) :
                                       \/ pdu_of(e).kind # RoomMember
                                       \/ pdu_of(e).state_key[1] \in window_senders(r)
                                       \/ (element_hacks /\ pdu_of(e).state_key[1] = SyncUser)}
        /\ (r.branch = "incremental" /\ ~r.full_state) =>
              LET changed == {e \in state_of(r) :
                                 e \notin {state_full_ids(r.since_shortstatehash[1])[key] :
                                              key \in DOMAIN state_full_ids(r.since_shortstatehash[1])}}
              IN /\ changed \subseteq r.state_events
                 /\ \A e \in r.state_events \ changed :
                       /\ pdu_of(e).kind = RoomMember
                       /\ pdu_of(e).state_key[1] \in window_senders(r)

\* an initial sync whose state section leaves out the member event of a user
\* who sent nothing in the window, and has the one of a user who did
C18_Witness ==
    /\ lazy_last # <<>> /\ lazy_on
    /\ lazy_last[1].branch = "initial" /\ ~lazy_last[1].full_state
    /\ \E e \in state_of(lazy_last[1]) \ lazy_last[1].state_events : pdu_of(e).kind = RoomMember
    /\ \E e \in lazy_last[1].state_events : pdu_of(e).kind = RoomMember

\* the events of the current room state that the state shortstatehash has not
changed_since(shortstatehash) ==
    {state_full_ids(current_shortstatehash)[key] : key \in DOMAIN state_full_ids(current_shortstatehash)}
        \ {state_full_ids(shortstatehash)[key] : key \in DOMAIN state_full_ids(shortstatehash)}
\* the three parts of the response to since: timeline, state, to-device
delta_of(since, element_hacks) ==
    LET r == load_joined_room(since, count_now, FALSE, element_hacks) IN
    [branch |-> r.branch, since_shortstatehash |-> r.since_shortstatehash, timeline |-> seq_range(r.timeline), state |-> r.state_events,
     to_device |-> seq_range(get_to_device_events(
         remove_to_device_events(todeviceid_events, SyncUser, SyncDevice, since),
         SyncUser, SyncDevice))]

\* C19 as stated: against the same state the response to an older since has
\* every timeline event, state event and to-device event of the response to
\* a newer since.
C19_ReplaySuperset ==
    is_joined(SyncUser) =>
        \A element_hacks \in ElementHacks :
        \E d \in {[since \in lazy_tokens |-> delta_of(since, element_hacks)]} :
            \A S1 \in lazy_tokens, S2 \in lazy_tokens :
                S1 <= S2 =>
                    /\ d[S2].timeline \subseteq d[S1].timeline
                    /\ d[S2].state \subseteq d[S1].state
                    /\ d[S2].to_device \subseteq d[S1].to_device

\* C19 amended: the timeline and the to-device events of the older since
\* include those of the newer one; of the state section only this holds:
\* when both replies are incremental, the state events that changed since the
\* newer token are in the reply to the older one.
C19_ReplayTimelineSuperset ==
    is_joined(SyncUser) =>
        \A element_hacks \in ElementHacks :
        \E d \in {[since \in lazy_tokens |-> delta_of(since, element_hacks)]} :
            \A S1 \in lazy_tokens, S2 \in lazy_tokens :
                S1 <= S2 =>
                    /\ d[S2].timeline \subseteq d[S1].timeline
                    /\ d[S2].to_device \subseteq d[S1].to_device
                    /\ (d[S1].branch = "incremental" /\ d[S2].branch = "incremental") =>
                          changed_since(d[S2].since_shortstatehash[1]) \subseteq d[S1].state

\* two tokens with different replies: the reply to the newer one has timeline
\* events, the reply to the older one has them and more
C19_Witness ==
    /\ is_joined(SyncUser)
    /\ \E S1 \in lazy_tokens, S2 \in lazy_tokens :
          /\ S1 < S2
          /\ delta_of(S2, FALSE).timeline # {}
          /\ delta_of(S2, FALSE).timeline # delta_of(S1, FALSE).timeline
          /\ delta_of(S2, FALSE).timeline \subseteq delta_of(S1, FALSE).timeline

(***************************************************************************)
(* Properties of the heroes.                                               *)
(***************************************************************************)
\* the users of the room whose last member event is a join or an invitation
current_members == {u \in room_users(hero_pdus) : membership_in(hero_pdus, u) \in {"join", "invite"}}

\* C20: heroes are calculated only when joined plus invited members are at
\* most 5; the list has at most 5 entries, no user twice, never the syncing
\* user, and only users who are joined or invited now.
C20_Heroes ==
    hero_result # <<>> =>
        LET heroes == hero_result[1].heroes IN
        /\ Cardinality(current_members) > HeroLimit => heroes = <<>>
        /\ Len(heroes) <= HeroLimit
        /\ \A j, k \in DOMAIN heroes : heroes[j] = heroes[k] => j = k
        /\ SyncUser \notin seq_range(heroes)
        /\ seq_range(heroes) \subseteq current_members

\* four heroes are listed in a room of five members, one of them a user with
\* two join events, who is listed once
C20_Witness ==
    /\ hero_result # <<>>
    /\ Len(hero_result[1].heroes) = 4
    /\ Cardinality({j \in DOMAIN hero_pdus : hero_pdus[j] = member_pdu(HeroUsers[1], "join")}) = 2
    /\ HeroUsers[1] \in seq_range(hero_result[1].heroes)

(***************************************************************************)
(* Properties of the timeline window.                                      *)
(***************************************************************************)
after_since(r) == {count \in r.log : count > r.sincecount}
\* the window is the min(10, k) events with the highest counts, ascending
window_is_newest(r) ==
    /\ Len(r.events) = IF Cardinality(after_since(r)) < TimelineLimit
                       THEN Cardinality(after_since(r)) ELSE TimelineLimit
    /\ \A j \in DOMAIN r.events : r.events[j] \in after_since(r)
    /\ \A j \in 1..(Len(r.events) - 1) : r.events[j] < r.events[j + 1]
    /\ \A count \in after_since(r) \ seq_range(r.events) : count < r.events[1]

\* C14 as stated: the window holds the min(10, k) newest events after since
\* in ascending order, and limited is true iff k exceeds the window size.
C14_WindowAndLimited ==
    joined_room # <<>> =>
        /\ window_is_newest(joined_room[1])
        /\ joined_room[1].limited <=> Cardinality(after_since(joined_room[1])) > TimelineLimit

\* C14 amended: the window holds the min(10, k) newest events after since
\* in ascending order, and limited is true iff k exceeds the window size or
\* the user joined the room since the last sync.
C14_WindowAndLimitedOrJoined ==
    joined_room # <<>> =>
        /\ window_is_newest(joined_room[1])
        /\ joined_room[1].limited <=>
              \/ Cardinality(after_since(joined_room[1])) > TimelineLimit
              \/ joined_room[1].joined_since_last_sync

\* a room with 11 events after since: a window of 10, limited; and one event
\* before since
C14_Witness ==
    /\ joined_room # <<>>
    /\ Cardinality(after_since(joined_room[1])) = TimelineLimit + 1
    /\ Len(joined_room[1].events) = TimelineLimit
    /\ joined_room[1].limited
    /\ ~joined_room[1].joined_since_last_sync
    /\ joined_room[1].log # after_since(joined_room[1])

(***************************************************************************)
(* Properties of the long poll.                                            *)
(***************************************************************************)
\* C12: when a key under a watched prefix was written after the /sync call
\* set up its watcher, the long-poll wait of the call ends by the watcher,
\* not by the timeout.
C12_WriteEndsLongPoll ==
    \A s \in PollClients :
        LET c == poll_task[s] IN
        c.pc = "done" /\ c.polled /\ c.written # {} => c.ended = "watch"

C1_NoEventInBothResponses ==
    /\ sync_last # <<>>
    /\ sync_prev # <<>>
    /\ sync_last[1].since = Some(sync_prev[1].next_batch)
    => sync_last[1].timeline \cap sync_prev[1].timeline = {}

\* C11 as stated: the next_batch of a response is greater than the
\* next_batch of the response before it.
C11_NextBatchStrictlyIncreasing ==
    sync_last # <<>> /\ sync_prev # <<>> =>
        since_of(Some(sync_prev[1].next_batch)) < since_of(Some(sync_last[1].next_batch))

\* C11 amended: the next_batch of a response is never less than the
\* next_batch of the response before it (it is the same when the counter
\* did not move between the two calls).
C11_NextBatchNonDecreasing ==
    sync_last # <<>> /\ sync_prev # <<>> =>
        since_of(Some(sync_prev[1].next_batch)) <= since_of(Some(sync_last[1].next_batch))

\* two successive responses, the second with a greater next_batch
C11_Witness ==
    /\ sync_last # <<>>
    /\ sync_prev # <<>>
    /\ since_of(Some(sync_prev[1].next_batch)) < since_of(Some(sync_last[1].next_batch))

\* C2: once a /sync call that sampled next_batch = T has read a room's
\* timeline, behind the room's insert mutex, every event of the room with
\* count <= T was there to be read, and those after since are in its window
\* (when no more than the window's limit).
C2_SeesAllUntilNextBatch ==
    \A s \in SyncClients :
        LET c == sync_task[s] IN
        \A room_id \in DOMAIN c.seen :
            /\ \A count \in room_events(pduid_pdu, room_id) :
                  count <= c.next_batch => count \in c.seen[room_id]
            /\ Cardinality({count \in c.seen[room_id] : count > c.sincecount}) <= TimelineLimit
               => \A count \in c.seen[room_id] :
                     c.sincecount < count /\ count <= c.next_batch
                     => <<room_id, count>> \in c.timeline

\* a /sync call sampled next_batch while an appending task had allocated a
\* count and not yet written its event, and has that event in its window
C2_Witness ==
    \E s \in SyncClients :
        \E e \in sync_task[s].in_flight :
            /\ e[1] \in DOMAIN sync_task[s].seen
            /\ e[2] <= sync_task[s].next_batch
            /\ e[2] > sync_task[s].sincecount
            /\ e \in sync_task[s].timeline

(***************************************************************************)
(* Properties of room creation and upgrade.                                *)
(***************************************************************************)
\* C4: every event createRoom and the room upgrade append to a room R is
\* appended while the appending request holds the state mutex of R.
C4_AppendUnderRoomLock ==
    \A t \in RoomTasks :
        room_task[t].appended # <<>> =>
            /\ room_task[t].appended[1].holder = t
            /\ room_task[t].appended[1].state_lock = room_task[t].appended[1].room_id

(***************************************************************************)
(* Properties of the federation requests.                                  *)
(***************************************************************************)
handling_room(q) == fed_task[q].parsed_pdus[fed_task[q].i].room_id

\* C3: at most one handle_incoming_pdu runs per room across /send, send_join
\* and send_leave, and a request holds a room's federation mutex only while
\* it handles a PDU of that room: it is released after each PDU, also after
\* a failure.
C3_FederationSerialized ==
    /\ \A q1, q2 \in FedRequests :
          /\ q1 # q2
          /\ fed_task[q1].pc = "handling"
          /\ fed_task[q2].pc = "handling"
          => handling_room(q1) # handling_room(q2)
    /\ \A q \in FedRequests, r \in RoomIds :
          roomid_mutex_federation[r] = q =>
              fed_task[q].pc \in {"handling", "unlock"} /\ handling_room(q) = r

\* a /send transaction whose first PDU failed handles its second PDU while a
\* send_join handles a PDU of another room
C3_Witness ==
    \E q1, q2 \in FedRequests :
        /\ fed_task[q1].pc = "handling" /\ fed_task[q1].kind = "send_transaction_message"
        /\ fed_task[q1].i = 2 /\ fed_task[q1].handled[1][2] = "err"
        /\ fed_task[q2].pc = "handling" /\ fed_task[q2].kind = "create_join_event"
        /\ handling_room(q1) # handling_room(q2)

body_event_ids(body) == {body[j].event_id : j \in DOMAIN body}

\* C5 as stated: a finished /send answers with success and one outcome for
\* each PDU of the transaction.
C5_OutcomePerPdu ==
    \A q \in FedRequests :
        LET c == fed_task[q] IN
        c.pc = "done" /\ c.kind = "send_transaction_message" =>
            /\ c.response.ok
            /\ DOMAIN c.response.pdus = body_event_ids(c.body)

\* C5 amended: unless handling an EDU fails, /send answers with success and
\* one outcome per event id of the PDUs that parsed (the last result of that
\* id; PDUs that do not parse are skipped without an outcome); every parsed
\* PDU is handled, in order, whatever the results of the PDUs before it, and
\* no PDU failure makes the request fail.
C5_PartialFailure ==
    \A q \in FedRequests :
        LET c == fed_task[q] IN
        c.pc = "done" /\ c.kind = "send_transaction_message" =>
            /\ c.response.ok = ~c.edu_failed
            /\ [j \in 1..Len(c.handled) |-> c.handled[j][1]]
                  = [j \in 1..Len(parsed(c.body)) |-> parsed(c.body)[j].event_id]
            /\ c.response.ok =>
                  /\ DOMAIN c.response.pdus = body_event_ids(parsed(c.body))
                  /\ \A j \in DOMAIN c.handled :
                        (\A k \in DOMAIN c.handled : c.handled[k][1] = c.handled[j][1] => k <= j)
                        => c.response.pdus[c.handled[j][1]] = c.handled[j][2]

\* a transaction answered with success although its first PDU failed, with
\* the outcomes of both of its PDUs
C5_Witness ==
    \E q \in FedRequests :
        LET c == fed_task[q] IN
        /\ c.pc = "done" /\ c.kind = "send_transaction_message"
        /\ c.response.ok
        /\ Len(c.handled) = 2
        /\ c.handled[1][2] = "err" /\ c.handled[2][2] = "ok"
        /\ c.handled[1][1] # c.handled[2][1]

(***************************************************************************)
(* Properties of the sending queue.                                        *)
(***************************************************************************)
\* C6: for every destination, queued_requests hands out the events in the
\* order in which queue_requests queued them.
C6_QueueFifo ==
    \A d \in Destinations :
        LET handed == queued_requests(servernameevent_data, d) IN
        [j \in 1..Len(handed) |-> handed[j][2]]
            = SelectSeq(queue_order, LAMBDA k : starts_with(k, get_prefix(d)))

\* C7: every event queued and not yet deleted from the active tree is in the
\* queued tree or in the active tree, in every state, between the two writes
\* of mark_as_active included.
C7_NoEventLost ==
    \A key \in send_pending :
        key \in DOMAIN servernameevent_data \/ key \in DOMAIN servercurrentevent_data

\* an event sits in both trees between the two writes of mark_as_active while
\* another event of the destination was already moved
C7_Witness ==
    \E d \in Destinations :
        /\ send_worker[d].pc = "remove"
        /\ send_worker[d].i = 2
        /\ send_worker[d].events[2][2] \in DOMAIN servernameevent_data
        /\ send_worker[d].events[2][2] \in DOMAIN servercurrentevent_data
        /\ send_worker[d].events[1][2] \in send_pending
        /\ send_worker[d].events[1][2] \notin DOMAIN servernameevent_data

(***************************************************************************)
(* Properties of the global counter.                                       *)
(***************************************************************************)
C10_Values ==
    /\ \A t \in CountTasks :
          LET c == count_task[t] IN
          /\ c.pc \in {"got", "returned"} /\ c.op = "next_count" =>
                \A v \in c.seen : c.ret > v
          /\ c.pc \in {"got", "returned"} /\ c.op = "current_count" => c.ret = c.last
    /\ \A j, k \in DOMAIN count_log : count_log[j] = count_log[k] => j = k
    /\ \A t, u \in CountTasks :
          /\ t # u
          /\ count_task[t].pc \in {"got", "returned"} /\ count_task[t].op = "next_count"
          /\ count_task[u].pc \in {"got", "returned"} /\ count_task[u].op = "next_count"
          => count_task[t].ret # count_task[u].ret

\* C10: next_count returns a value greater than every value an earlier call
\* returned, concurrent calls never return the same value, current_count
\* returns the latest allocated value (0 when there is none) and leaves the
\* counter as it is.
C10_CounterMonotonic ==
    /\ []C10_Values
    /\ [][\A t \in CountTasks : current_count_call(t) => global' = global]_vars

\* two calls of next_count overlapped, and current_count read an allocated
\* value after an earlier next_count had returned
C10_Witness ==
    /\ Len(count_log) >= 1
    /\ \E t, u \in CountTasks :
          /\ t # u
          /\ count_task[t].pc = "got" /\ count_task[t].op = "next_count"
          /\ count_task[t].seen # {}
          /\ count_task[u].pc = "got" /\ count_task[u].op = "current_count"
          /\ count_task[u].ret > 0

(***************************************************************************)
(* Properties of the interner.                                             *)
(***************************************************************************)
AllShortIdle == \A t \in ShortTasks : short_task[t].pc = "idle"
\* forward tree fwd and reverse tree rev are inverse bijections
inverse_trees(fwd, rev) ==
    /\ \A f \in DOMAIN fwd : tree_get(rev, fwd[f]) = Some(f)
    /\ \A s \in DOMAIN rev : tree_get(fwd, rev[s]) = Some(s)
    /\ \A f1, f2 \in DOMAIN fwd : fwd[f1] = fwd[f2] => f1 = f2

\* C8: once all concurrent get_or_create calls have returned, every full id
\* has exactly one short id, no short id belongs to two full ids, and every
\* reverse entry (short -> full) agrees with the forward table.
C8_InternerBijection ==
    AllShortIdle =>
        /\ inverse_trees(eventid_shorteventid, shorteventid_eventid)
        /\ inverse_trees(statekey_shortstatekey, shortstatekey_statekey)
        /\ \A r1, r2 \in DOMAIN roomid_shortroomid :
              roomid_shortroomid[r1] = roomid_shortroomid[r2] => r1 = r2

\* a short -> full tree of the store maps the short id back to the full id
reverse_entry(short, full) ==
    \/ tree_get(shorteventid_eventid, to_be_bytes(short)) = Some(full)
    \/ tree_get(shortstatekey_statekey, to_be_bytes(short)) = Some(full)

round_trip_events_statekeys(c) ==
    /\ c.op = "get_or_create_shorteventid" => c.res = <<Ok(c.arg[1])>>
    /\ c.op = "get_or_create_shortstatekey" => c.res = <<Ok(<<c.arg[1], c.arg[2]>>)>>

\* C9 as stated: interning then resolving yields the original for event ids,
\* for (event type, state key) pairs, and for room ids, whose short id some
\* short -> full table of the store must then map back to the room id.
C9_RoundTripWithRooms ==
    \A t \in ShortTasks :
        LET c == short_task[t] IN
        c.pc = "done" =>
            /\ round_trip_events_statekeys(c)
            /\ c.op = "get_or_create_shortroomid" => reverse_entry(c.ret[1], c.arg[1])

\* C9 amended: get_eventid_from_short(get_or_create_shorteventid(e)) = e and
\* get_statekey_from_short(get_or_create_shortstatekey(t, k)) = (t, k); a room
\* id has no reverse table, its short id is only found again by the forward
\* lookup get_shortroomid.
C9_RoundTrip ==
    \A t \in ShortTasks :
        LET c == short_task[t] IN
        c.pc = "done" =>
            /\ round_trip_events_statekeys(c)
            /\ c.op = "get_or_create_shortroomid" => c.res = <<Ok(Some(c.ret[1]))>>

\* a freshly interned state key with a non-empty type was resolved while
\* event ids and rooms are interned too
C9_Witness ==
    /\ \E t \in ShortTasks :
          /\ short_task[t].pc = "done"
          /\ short_task[t].op = "get_or_create_shortstatekey"
          /\ short_task[t].created
          /\ short_task[t].arg[1] # <<>>
    /\ DOMAIN shorteventid_eventid # {}
    /\ DOMAIN roomid_shortroomid # {}

(***************************************************************************)
(* Properties of the room upgrade.                                         *)
(***************************************************************************)
\* the request returns Ok in this step
upgrade_succeeds(t) ==
    /\ upgrade_task[t].pc # "done"
    /\ upgrade_task'[t].pc = "done"
    /\ upgrade_task'[t].result # Err

\* C21: after a successful upgrade of R to R', the current power levels of R
\* have events_default = invite = max(50, users_default + 1), so
\* events_default >= 50, and the m.room.tombstone of R has replacement_room
\* equal to the room id R' returned to the client.
C21_UpgradedRoom ==
    [][\A t \in UpgradeTasks :
          upgrade_succeeds(t) =>
              LET c == upgrade_task'[t]
                  power_levels == room_state_get(room_pdus', c.room_id, "m.room.power_levels")
                  tombstone == room_state_get(room_pdus', c.room_id, "m.room.tombstone")
              IN  /\ power_levels # None
                  /\ power_levels[1].content.events_default
                        = max(50, power_levels[1].content.users_default + 1)
                  /\ power_levels[1].content.invite
                        = max(50, power_levels[1].content.users_default + 1)
                  /\ power_levels[1].content.events_default >= 50
                  /\ tombstone # None
                  /\ tombstone[1].content.replacement_room = c.result[1]]_vars

\* C22: after a successful upgrade of R to R', every local alias that
\* resolved to R before the upgrade resolves to R' and no local alias
\* resolves to R any more.
C22_AliasesMoved ==
    [][\A t \in UpgradeTasks :
          upgrade_succeeds(t) =>
              LET c == upgrade_task'[t] IN
              /\ \A alias \in c.aliases_before :
                    resolve_local_alias(alias_roomid', alias) = Some(c.replacement_room)
              /\ local_aliases_for_room(alias_roomid', c.room_id) = {}]_vars

\* the steps of an upgrade in the order of C23; the copies share a rank
step_rank(step) ==
    CASE step = "m.room.tombstone" -> 1
      [] step = "m.room.create" -> 2
      [] step = "m.room.member" -> 3
      [] step = "aliases" -> 5
      [] step = "raise" -> 6
      [] OTHER -> 4
transferable_index(event_type) ==
    CHOOSE i \in DOMAIN TRANSFERABLE_STATE_EVENTS : TRANSFERABLE_STATE_EVENTS[i] = event_type
\* the steps are done in order, none twice and none before the one before it
steps_in_order(steps) ==
    /\ \A i \in DOMAIN steps :
          /\ i = 1 => steps[i] = "m.room.tombstone"
          /\ i > 1 =>
                \/ step_rank(steps[i]) = 4 /\ step_rank(steps[i - 1]) = 3
                \/ /\ step_rank(steps[i]) = 4 /\ step_rank(steps[i - 1]) = 4
                   /\ transferable_index(steps[i - 1]) < transferable_index(steps[i])
                \/ step_rank(steps[i]) = 5 /\ step_rank(steps[i - 1]) \in {3, 4}
                \/ /\ step_rank(steps[i]) \in {2, 3, 6}
                   /\ step_rank(steps[i - 1]) = step_rank(steps[i]) - 1
event_types_of(q) == [i \in DOMAIN q |-> q[i].event_type]
has_content(pdus, room_id, event_type, content) ==
    \E i \in DOMAIN pdus_of(pdus, room_id) :
        /\ pdus_of(pdus, room_id)[i].event_type = event_type
        /\ pdus_of(pdus, room_id)[i].content = content
in_steps(c, step) == \E i \in DOMAIN c.steps : c.steps[i] = step

\* C23: an upgrade does its steps in this order: tombstone in R,
\* m.room.create in R' with predecessor = {R, tombstone event id} and the
\* requested room version, join of the sender in R', copy of the content of
\* each transferable state event R has (absent types are skipped), move of
\* the local aliases, and last the power-level raise in R; no step is done
\* before the step before it succeeded.
C23_UpgradeOrder ==
    \A t \in UpgradeTasks :
        LET c == upgrade_task[t]
            new_pdus == pdus_of(room_pdus, c.replacement_room)
            create == room_state_get(room_pdus, c.replacement_room, "m.room.create")
        IN  /\ steps_in_order(c.steps)
            \* the events of R' are those of the steps, in their order
            /\ event_types_of(new_pdus)
                  = SelectSeq(c.steps, LAMBDA step : step_rank(step) \in {2, 3, 4})
            /\ in_steps(c, "m.room.create") =>
                  /\ create[1].content.room_version = c.new_version
                  /\ create[1].content.predecessor
                        = Some([room_id |-> c.room_id, event_id |-> c.tombstone_event_id])
                  /\ c.tombstone_event_id[1] = c.room_id
                  /\ room_pdus[c.room_id][c.tombstone_event_id[2]]
                        = [event_type |-> "m.room.tombstone",
                           content |-> [replacement_room |-> c.replacement_room]]
            \* a copy has the content of an event of that type of R
            /\ \A i \in DOMAIN new_pdus :
                  step_rank(new_pdus[i].event_type) = 4 =>
                      has_content(room_pdus, c.room_id, new_pdus[i].event_type,
                                  new_pdus[i].content)
            \* after the loop every transferable type of R is copied
            /\ in_steps(c, "aliases") =>
                  \A i \in DOMAIN TRANSFERABLE_STATE_EVENTS :
                      in_steps(c, TRANSFERABLE_STATE_EVENTS[i])
                          <=> room_state_get(room_pdus, c.room_id,
                                             TRANSFERABLE_STATE_EVENTS[i]) # None
            /\ in_steps(c, "raise") <=> c.result # Err
\* an upgrade that copied three state events has returned Ok
C23_Witness ==
    \E t \in UpgradeTasks :
        /\ upgrade_task[t].result # Err
        /\ Len(upgrade_task[t].steps) = 8
        /\ upgrade_task[t].new_version = 11

(***************************************************************************)
(* Properties of the room creation.                                        *)
(***************************************************************************)
\* the place of a step in the order of C24
site_rank(site) ==
    CASE site = "create" -> 1
      [] site = "join" -> 2
      [] site = "power_levels" -> 3
      [] site = "canonical_alias" -> 4
      [] site = "join_rules" -> 5
      [] site = "history_visibility" -> 6
      [] site = "guest_access" -> 7
      [] site = "initial_state" -> 8
      [] site = "name" -> 9
      [] site = "topic" -> 10
      [] site = "invite" -> 11
site_event_type(site) ==
    CASE site = "create" -> "m.room.create"
      [] site = "join" -> "m.room.member"
      [] site = "power_levels" -> "m.room.power_levels"
      [] site = "canonical_alias" -> "m.room.canonical_alias"
      [] site = "join_rules" -> "m.room.join_rules"
      [] site = "history_visibility" -> "m.room.history_visibility"
      [] site = "guest_access" -> "m.room.guest_access"
      [] site = "name" -> "m.room.name"
      [] site = "topic" -> "m.room.topic"
      [] OTHER -> ""
\* the initial_state events of a request that are not skipped
not_skipped(body, allow_encryption) ==
    SelectSeq(body.initial_state,
              LAMBDA event : /\ event.content # "{}"
                             /\ ~(event.event_type = "m.room.encryption" /\ ~allow_encryption))
returned_ok(c) == c.result # <<>> /\ c.result[1].kind = "Ok"

\* C24: createRoom appends events to the new room in this order:
\* m.room.create, the join of the creator, power levels, canonical alias
\* (only when an alias was requested), join rules, history visibility, guest
\* access, each initial_state event in request order (skipping events whose
\* content is `{}` and m.room.encryption events when encryption is
\* disallowed), name, topic (the last two when requested); invites are sent
\* only after all of these and a failure of an append stops the sequence.
C24_CreateOrder ==
    \A t \in CreateTasks :
        LET c == create_task[t]
            steps == c.steps
            events == pdus_of(room_pdus, CreatedRoom)
            has(site) == \E i \in DOMAIN steps : steps[i] = site
            \* a step after the place r was done, or the request returned Ok
            past(r) == returned_ok(c) \/ \E i \in DOMAIN steps : site_rank(steps[i]) > r
            appended == SelectSeq(steps, LAMBDA site : site # "invite")
            initial_at == {i \in DOMAIN appended : appended[i] = "initial_state"}
            first == IF initial_at = {} THEN 0
                     ELSE (CHOOSE i \in initial_at : \A j \in initial_at : i <= j) - 1
            wanted == IF c.body = <<>> THEN <<>> ELSE not_skipped(c.body, c.allow_encryption)
        IN  /\ \A i \in DOMAIN steps \ {1} :
                  \/ site_rank(steps[i - 1]) < site_rank(steps[i])
                  \/ /\ site_rank(steps[i - 1]) = site_rank(steps[i])
                     /\ steps[i] \in {"initial_state", "invite"}
            /\ \A site \in {"create", "join", "power_levels", "join_rules",
                            "history_visibility", "guest_access"} :
                  past(site_rank(site)) => has(site)
            /\ past(4) => (has("canonical_alias") <=> c.body.room_alias_name # None)
            /\ past(9) => (has("name") <=> c.body.name # None)
            /\ past(10) => (has("topic") <=> c.body.topic # None)
            \* the events of the room are those of the steps
            /\ Len(events) >= Len(appended)
            /\ \A i \in DOMAIN appended :
                  IF appended[i] = "initial_state"
                  THEN /\ i - first <= Len(wanted)
                       /\ events[i].event_type = wanted[i - first].event_type
                       /\ events[i].content = wanted[i - first].content
                  ELSE events[i].event_type = site_event_type(appended[i])
            /\ past(8) => Cardinality(initial_at) = Len(wanted)
            \* an append that failed was the last step
            /\ (c.result # <<>> /\ ~returned_ok(c)) => ~has("invite")
\* a request with an alias, a skipped `{}` event, a skipped encryption
\* event, an appended initial_state event, name, topic and an invite
\* returned Ok
C24_Witness ==
    \E t \in CreateTasks :
        LET c == create_task[t] IN
        /\ returned_ok(c)
        /\ c.steps = <<"create", "join", "power_levels", "canonical_alias", "join_rules",
                       "history_visibility", "guest_access", "name", "topic", "invite">>
        /\ Len(c.body.initial_state) = 2
        /\ c.body.initial_state[1].content = "{}"
        /\ c.body.initial_state[2].event_type = "m.room.encryption"

\* the request asks for an alias and room_alias_check has decided on it
alias_decided(c) ==
    /\ c.body # <<>> /\ c.body.room_alias_name # None
    /\ \/ c.pc \in {"append", "invite"}
       \/ c.pc = "done" /\ c.result[1].kind # "forbidden"
\* the namespace condition of C29 for the alias the request asks for
namespace_allows(c) ==
    LET full_room_alias == full_alias(c.body.room_alias_name[1]) IN
    IF c.body.appservice_info = None
    THEN ~\E id \in DOMAIN registration_info :
             is_exclusive_match(registration_info[id].aliases, full_room_alias)
    ELSE is_match(registration_info[c.body.appservice_info[1]].aliases, full_room_alias)
alias_reserved(c) ==
    resolve_local_alias(alias_roomid, full_alias(c.body.room_alias_name[1])) = Some(CreatedRoom)
\* the checks room_alias_check makes before it looks at the namespaces
alias_name_usable(c) ==
    LET name == c.body.room_alias_name[1] IN
    /\ ~has_byte(name, {34, 58} \cup {b \in 0..255 : is_whitespace(b)})
    /\ Len(name) <= 255
    /\ ~RegexSet_is_match(forbidden_alias_names, name)
    /\ resolve_local_alias(alias_roomid, full_alias(name)) = None

first_sync_of_public_chat ==
    /\ first_task.pc = "created"
    /\ first_task.body.preset = Some("public_chat")
    /\ first_task.body.visibility = "private"
    /\ first_task.body.name = None /\ first_task.body.topic = None
    /\ first_task.sent = 0 /\ first_task.syncs = 1
    /\ lazy_last # <<>>
    /\ lazy_last[1].since = 0
create_phase_types ==
    <<"m.room.create", "m.room.member", "m.room.power_levels", "m.room.join_rules",
      "m.room.history_visibility", "m.room.guest_access">>
\* the room is in the response and its state section holds the 6 events
state_has_create_phase ==
    /\ lazy_last[1].branch # "absent"
    /\ Len(first_task.created) = 6
    /\ lazy_last[1].state_events = {first_task.created[j] : j \in 1..6}
    /\ \A j \in 1..6 : pdu_of(first_task.created[j]).kind = create_phase_types[j]
\* C25: after createRoom with preset public_chat and no other options, the
\* creator's first /sync without since lists the room as joined, with the 6
\* create-phase state events in its state section and an empty timeline.
C25_FirstSync ==
    first_sync_of_public_chat =>
        /\ state_has_create_phase
        /\ lazy_last[1].timeline = <<>>
\* C25 as amended: the timeline holds the same 6 events, oldest first.
C25_FirstSyncTimeline ==
    first_sync_of_public_chat =>
        /\ state_has_create_phase
        /\ lazy_last[1].timeline = first_task.created
\* the first /sync of the creator of a public_chat room is being answered
\* while lazy loading is on
C25_Witness ==
    /\ first_sync_of_public_chat
    /\ lazy_filter.lazy_load_enabled
    /\ Len(lazy_last[1].timeline) = 6
\* a request to a federation endpoint has been answered
server_request_done ==
    auth_task.pc = "done" /\ auth_task.request.scheme = "ServerSignatures"
\* the fields the signature of the request has to be over
signed_fields(request, origin) ==
    LET fields == [method |-> request.method, uri |-> request.path, origin |-> origin,
                   destination |-> ServerName] IN
    IF request.json = None THEN fields ELSE fields @@ [content |-> request.json[1]]
\* the request is accepted with an origin only if its signature is by a key
\* of the origin and over the fields
accepted_only_if_signed ==
    LET request == auth_task.request
        result == auth_task.result IN
    (auth_task.pc = "done" /\ result.kind = "Ok" /\ result.origin # None) =>
        /\ request.scheme = "ServerSignatures"
        /\ request.header.scheme = "X-Matrix"
        /\ request.header.x_matrix.origin = result.origin[1]
        /\ request.header.x_matrix.key \in DOMAIN server_keys[result.origin[1]]
        /\ request.header.x_matrix.sig.public_key =
              server_keys[result.origin[1]][request.header.x_matrix.key]
        /\ request.header.x_matrix.sig.object = signed_fields(request, result.origin[1])
other_destination ==
    /\ auth_task.request.header.scheme = "X-Matrix"
    /\ auth_task.request.header.x_matrix.destination # None
    /\ auth_task.request.header.x_matrix.destination[1] # ServerName
\* C26: a federation request is accepted with origin O only if its X-Matrix
\* signature verifies with O's signing key over method, uri, origin,
\* destination = this server's name, signatures and the content of a JSON
\* body; a request with another destination is rejected as forbidden; every
\* server-signature request is rejected when federation is disabled.
C26_XMatrix ==
    /\ accepted_only_if_signed
    /\ (server_request_done /\ other_destination) => auth_task.result.kind = "forbidden"
    /\ (server_request_done /\ ~auth_task.allow_federation) => auth_task.result.kind # "Ok"
\* C26 as amended: a request with another destination is rejected, and as
\* forbidden when federation is enabled and the request has no access token.
C26_XMatrixFederationEnabled ==
    /\ accepted_only_if_signed
    /\ (server_request_done /\ other_destination) =>
          /\ auth_task.result.kind # "Ok"
          /\ (auth_task.allow_federation /\ request_token(auth_task.request) = None)
                 => auth_task.result.kind = "forbidden"
    /\ (server_request_done /\ ~auth_task.allow_federation) => auth_task.result.kind # "Ok"
\* a request of "o" with a JSON body, signed by the key of "o", is accepted
C26_Witness ==
    /\ server_request_done
    /\ auth_task.request.json # None
    /\ auth_task.request.header.scheme = "X-Matrix"
    /\ auth_task.request.header.x_matrix.destination = Some(ServerName)
    /\ auth_task.result.kind = "Ok"
    /\ auth_task.result.origin = Some(OriginO)
\* the token of the answered request matches neither an appservice nor a user
token_unknown == auth_task.pc = "done" /\ auth_task.token.kind = "Invalid"
token_missing_for_access_token ==
    /\ auth_task.pc = "done"
    /\ auth_task.request.scheme = "AccessToken"
    /\ request_token(auth_task.request) = None
has_sender_user ==
    auth_task.pc = "done" /\ auth_task.result.kind = "Ok" /\ auth_task.result.sender_user # None
by_user_token ==
    /\ auth_task.token.kind = "User"
    /\ users_find_from_token(request_token(auth_task.request)[1]) =
          Some(<<auth_task.result.sender_user[1], auth_task.result.sender_device[1]>>)
\* the user an appservice asserts: the user_id of the query
by_appservice_token_in_namespace ==
    /\ auth_task.token.kind = "Appservice"
    /\ registration_users[auth_task.token.info].registration.as_token =
          request_token(auth_task.request)[1]
    /\ auth_task.request.query_user_id = auth_task.result.sender_user
    /\ is_match(registration_users[auth_task.token.info].users, auth_task.result.sender_user[1])
    /\ auth_task.result.sender_user[1] \in ExistingUsers
\* the same, where the appservice's own user stands for a missing user_id and
\* a user with the sender_localpart counts as in the namespace
by_appservice_token ==
    LET info == registration_users[auth_task.token.info]
        user_id == auth_task.result.sender_user[1] IN
    /\ auth_task.token.kind = "Appservice"
    /\ auth_task.request.scheme = "AccessToken"
    /\ info.registration.as_token = request_token(auth_task.request)[1]
    /\ \/ auth_task.request.query_user_id = Some(user_id)
       \/ /\ auth_task.request.query_user_id = None
          /\ user_id = <<64>> \o info.registration.sender_localpart \o <<58>> \o ServerName
    /\ \/ is_match(info.users, user_id)
       \/ localpart(user_id) = info.registration.sender_localpart
    /\ user_id \in ExistingUsers
\* C27: for every authentication scheme, a request whose token matches
\* neither an appservice nor a user is rejected with the unknown-token
\* error, a request without token to an access-token endpoint is rejected
\* with the missing-token error, and a request obtains a sender_user only by
\* a valid user token, or by a valid appservice token whose asserted user
\* lies in the user namespace of the appservice and exists.
C27_TokenAuth ==
    /\ token_unknown => auth_task.result.kind = "UnknownToken"
    /\ token_missing_for_access_token => auth_task.result.kind = "MissingToken"
    /\ has_sender_user => (by_user_token \/ by_appservice_token_in_namespace)
\* C27 as amended: the unknown token is rejected with the missing-token
\* error by the public rooms directory that needs a token, and the user of
\* an appservice token may be the appservice's own user or a user with its
\* sender_localpart.
C27_TokenAuthOwnUser ==
    /\ token_unknown =>
          auth_task.result.kind =
             IF public_rooms_check(auth_task.request, auth_task.token,
                                   auth_task.allow_public_room_directory_without_auth)
             THEN "MissingToken" ELSE "UnknownToken"
    /\ token_missing_for_access_token => auth_task.result.kind = "MissingToken"
    /\ has_sender_user => (by_user_token \/ by_appservice_token)
\* the appservice "as1" asserted "@x:s" on an access-token endpoint and is
\* that user
C27_Witness ==
    /\ has_sender_user
    /\ auth_task.token.kind = "Appservice"
    /\ auth_task.request.query_user_id = Some(<<64, 120, 58, 115>>)
    /\ auth_task.result.sender_user = Some(<<64, 120, 58, 115>>)
    /\ auth_task.result.appservice_info = Some("as1")
\* C28: GET /rooms/{roomId}/event/{eventId} returns the event only if the
\* user is currently joined to the room and the visibility check of the
\* state accessor lets the user see the event; an unknown event gives
\* not-found and every other case gives forbidden.
C28_EventAccess ==
    event_task.pc = "done" =>
        event_task.result =
            IF event_task.event_id \notin DOMAIN RoomEvents THEN [kind |-> "NotFound"]
            ELSE IF /\ event_task.room_id \in event_joined
                    /\ event_task.event_id \in event_visible
                 THEN [kind |-> "Ok", event |-> RoomEvents[event_task.event_id]]
            ELSE [kind |-> "forbidden"]
\* the key ids of the keys a call was given
ids_of(new_keys) == DOMAIN new_keys.verify_keys \cup DOMAIN new_keys.old_verify_keys
\* C30: once add_signing_key(origin, new_keys) has returned,
\* signing_keys_for(origin) has the verify keys and old verify keys of
\* new_keys, also when two calls for the same origin run concurrently.
C30_KeysAdded ==
    \A t \in KeyTasks :
        key_task[t].pc = "done" =>
            ids_of(key_task[t].new_keys)
                \subseteq DOMAIN signing_keys_for(server_signingkeys, key_task[t].origin)
\* the separators and the line breaks
separators_and_breaks == {47, 92, 13, 10}
\* the subsequence of the characters that are not in the class
without(string, class) == SelectSeq(string, LAMBDA ch : ch \notin class)
\* C31: sanitising a file name deletes every '/' and '\' and every CR and
\* LF and keeps all other characters in their original order, so the result
\* never contains a separator or a line break.
C31_Sanitised ==
    sanitise_task.pc = "sanitised" =>
        /\ sanitise_task.result = without(sanitise_task.filename, separators_and_breaks)
        /\ \A j \in DOMAIN sanitise_task.result :
              sanitise_task.result[j] \notin separators_and_breaks
\* a file name all of dots, and on a Windows build a reserved device name
\* and trailing dots and spaces, as the crate treats them
name_after_rules(string, windows) ==
    IF is_reserved(string) THEN <<>>
    ELSE IF ~windows THEN string
    ELSE strip_trailing(IF is_windows_reserved(string) THEN <<>> ELSE string)
\* C31 as amended: the characters / ? < > \ : * | " and the control
\* characters U+0000..U+001F and U+0080..U+009F are deleted and the others
\* kept in order; a name that is then all dots becomes empty (on Windows
\* also a reserved device name, and trailing dots and spaces are cut); the
\* result, also inside the header, has no separator and no line break.
C31_SanitisedIllegal ==
    /\ sanitise_task.pc = "sanitised" =>
          /\ sanitise_task.result =
                name_after_rules(without(sanitise_task.filename, ILLEGAL \cup CONTROL),
                                 sanitise_task.windows)
          /\ \A j \in DOMAIN sanitise_task.result :
                sanitise_task.result[j] \notin separators_and_breaks
    /\ sanitise_task.pc = "made" =>
          \A j \in DOMAIN sanitise_task.result :
              sanitise_task.result[j] \notin separators_and_breaks
\* "/a\" followed by a line feed... here: '/', 'a', LF is sanitised to "a"
C31_Witness ==
    /\ sanitise_task.pc = "sanitised"
    /\ sanitise_task.filename = <<47, 97, 10>>
    /\ sanitise_task.result = <<97>>
\* the state hash of the room when the request's event was applied
join_response_shortstatehash_at_apply(c, t) == pdu_shortstatehash[JoinEvent[t]]
\* C32: send_join returns as `state` the room state immediately prior to
\* the join event it applies, whatever other events were handled for the
\* room between reading the state hash and applying the join.
C32_StateBeforeJoin ==
    \A t \in JoinTasks :
        join_task[t].pc = "done" /\ join_task[t].response.ok =>
            join_task[t].response.state =
                join_state_full_ids(join_response_shortstatehash_at_apply(join_task[t], t))
\* C33: once a /sync response with next_batch = T was computed, the state
\* hash stored for (room, T) is the one the response was diffed against; no
\* later or concurrent /sync sampling the same T replaces it by another.
C33_TokenStateKept ==
    \A entry \in token_log :
        get_token_shortstatehash(roomsynctoken_shortstatehash, TokenRoom, entry[1])
            = Some(entry[2])
\* two finished requests that asked for the same alias or the same room id
rivals(t, u) ==
    /\ t # u
    /\ rival_task[t].pc = "done" /\ rival_task[u].pc = "done"
    /\ \/ rival_task[t].body.room_id # None
          /\ rival_task[t].body.room_id = rival_task[u].body.room_id
       \/ rival_task[t].body.room_alias_name # None
          /\ rival_task[t].body.room_alias_name = rival_task[u].body.room_alias_name
\* the rooms whose m.room.canonical_alias names the alias
rooms_naming(alias) ==
    {room_id \in DOMAIN room_pdus :
        /\ room_state_get(room_pdus, room_id, "m.room.canonical_alias") # None
        /\ room_state_get(room_pdus, room_id, "m.room.canonical_alias")[1].content.alias = alias}
\* C34: of two createRoom requests asking for the same room_alias_name or
\* the same custom room_id, at most one succeeds and the other fails with
\* room-in-use; afterwards the alias resolves to the one room whose
\* m.room.canonical_alias names it.
C34_OneCreateWins ==
    \A t \in RivalTasks, u \in RivalTasks :
        rivals(t, u) /\ rival_task[t].result = "Ok" =>
            /\ rival_task[u].result = "RoomInUse"
            /\ rival_task[t].alias # None =>
                  /\ rooms_naming(rival_task[t].alias[1]) = {rival_task[t].room_id}
                  /\ resolve_local_alias(alias_roomid, rival_task[t].alias[1])
                        = Some(rival_task[t].room_id)
\* the upgrade call failed before or at its tombstone event
failed_at_tombstone(c) == c.pc = "done" /\ c.result = Err /\ c.steps = <<>>
\* C35: when a room upgrade fails because the version is unsupported or
\* because the tombstone event is rejected, server state is unchanged: no
\* replacement room id is interned, no event is appended and no alias moved.
C35_FailedUpgradeLeavesNothing ==
    \A t \in UpgradeTasks :
        failed_at_tombstone(upgrade_task[t]) =>
            /\ get_shortroomid(roomid_shortroomid, upgrade_task[t].replacement_room) = Ok(None)
            /\ pdus_of(room_pdus, upgrade_task[t].replacement_room) = <<>>
            /\ local_aliases_for_room(alias_roomid, upgrade_task[t].replacement_room) = {}
\* C36: a direct-to-device EDU with a given (sender, message_id) delivers
\* each of its messages to each target device at most once, however often
\* the EDU is received and also when an earlier receipt failed part-way.
C36_ToDeviceOnce ==
    \A key \in DOMAIN todevice_inbox :
        \A i \in DOMAIN todevice_inbox[key], j \in DOMAIN todevice_inbox[key] :
            todevice_inbox[key][i] = todevice_inbox[key][j] => i = j
\* the users whose per-user data the step changes
users_changed ==
    {u \in RemoteUsers :
        \/ (u \in userid_presence') # (u \in userid_presence)
        \/ (u \in typing_userids') # (u \in typing_userids)
        \/ (u \in keychangeid_userid') # (u \in keychangeid_userid)
        \/ (u \in userid_masterkeyid') # (u \in userid_masterkeyid)
        \/ \E key \in DOMAIN todevice_inbox :
              \E j \in DOMAIN todevice_inbox'[key] :
                  j > Len(todevice_inbox[key]) /\ todevice_inbox'[key][j].sender = u}
\* C37: handling the EDUs of a transaction from origin server S changes
\* per-user data (presence, typing, device-list-changed marks, cross-signing
\* keys, to-device messages attributed to a sender) only for users whose
\* server name is S.
C37_OnlyUsersOfOrigin ==
    [][\A u \in users_changed : user_server_name(u) = edu_task.origin]_vars
\* C38: after any sequence and interleaving of register_appservice and
\* unregister_appservice calls the ids of the registration cache are the ids
\* stored in the database; an unknown id is refused and changes nothing.
C38_CacheMatchesDatabase ==
    (\A t \in AppserviceTasks : appservice_task[t].pc \in {"idle", "done"}) =>
        DOMAIN registration_cache = db_iter_ids(id_appserviceregistrations)
\* the loop has a bound: every turn moves i, and the queue grows only with
\* an event that is returned
missing_bounded ==
    /\ missing_task.i <= Len(missing_task.queued_events)
    /\ Len(missing_task.queued_events)
          <= Len(missing_task.body.latest_events) + 2 * Len(missing_task.events)
\* C39: get_missing_events terminates, returns at most `limit` events, all
\* of the requested room, none listed in earliest_events, none the
\* requesting server may not see, and never the same event twice.
C39_MissingEvents ==
    /\ missing_task.pc = "loop" => missing_bounded
    /\ missing_task.pc = "done" =>
          /\ Len(missing_task.events) <= missing_task.body.limit
          /\ \A j \in DOMAIN missing_task.events :
                /\ get_pdu_json(missing_task, missing_task.events[j])[1].room_id
                      = missing_task.body.room_id
                /\ missing_task.events[j] \notin missing_task.body.earliest_events
                /\ server_can_see_event(missing_task, missing_task.events[j])
          /\ \A j \in DOMAIN missing_task.events, k \in DOMAIN missing_task.events :
                missing_task.events[j] = missing_task.events[k] => j = k
\* C40: for every sliding-sync request and every requested range, also when
\* the user has no joined room or the range lies beyond the end of the room
\* list, the handler completes without an out-of-bounds failure and the
\* room_ids of the range are the joined rooms at the clamped indices, with
\* start <= end <= number of joined rooms - 1.
C40_RangesClamped ==
    slide_task.pc = "done" /\ ~slide_task.list.is_invite =>
        /\ slide_task.result = "Ok"
        /\ \A j \in DOMAIN slide_task.ops :
              LET op == slide_task.ops[j] IN
              /\ op.range[1] <= op.range[2]
              /\ op.range[2] <= Len(slide_task.all_joined_rooms) - 1
              /\ op.room_ids = [k \in 1..(op.range[2] - op.range[1] + 1) |->
                                  slide_task.all_joined_rooms[op.range[1] + k]]
====
